---- MODULE Spec2Model ----
(***************************************************************************)
(* SAGE: the on-chain agent registry (sage-registry), its verification     *)
(* hook (sage-verification-hook) and the client session core               *)
(* (sage-client: HpkeContext, Session, SessionManager).                    *)
(*                                                                         *)
(* Every instruction handler is an operator from the account state and the *)
(* instruction's inputs to a result record [err, <account>]; the           *)
(* transaction runtime commits the account only when err = "Ok".           *)
(***************************************************************************)
EXTENDS Integers, Sequences, FiniteSets, TLC

VARIABLES
    now,        \* the cluster clock (Clock::get()?.unix_timestamp), seconds
    registry,   \* the Registry account
    agents,     \* DID -> Agent account, or NoAgent where none exists
    hook_state, \* the HookState account of the verification hook
    users,      \* principal -> UserState account of the hook, or NoUser
    recorded,   \* principal -> the RegistrationRecorded events emitted for it
                \* on the latest day one was emitted: the day and how many
    sessions,   \* SessionManager.sessions: session id -> Session, or NoSession
    opened,     \* session id -> the embedded sequences Session::decrypt opened
    parsed,     \* the client's last call on Did: what it was given and returned
    pair,       \* a sender and a receiver HpkeContext and what went between them
    server,     \* the responder: envelopes seen on the wire, sessions allocated
    last        \* the most recent instruction: what it was and how it ended

registryVars == <<registry, agents>>
hookVars == <<hook_state, users, recorded>>
clientVars == <<sessions, opened>>
peerVars == <<pair, server>>
vars == <<now, registry, agents, hook_state, users, recorded, sessions, opened, parsed,
          pair, server, last>>

(***************************************************************************)
(* Program constants.                                                      *)
(***************************************************************************)
MAX_KEYS_PER_AGENT == 5
MAX_DID_LEN == 128
MAX_NAME_LEN == 64
MAX_DESCRIPTION_LEN == 256
MAX_ENDPOINT_LEN == 128
MAX_CAPABILITIES_LEN == 256
MAX_REGISTRATIONS_PER_DAY == 5
REGISTRATION_COOLDOWN == 60
\* max_age_seconds Client::handshake gives Session::new.
SESSION_MAX_AGE == 3600
\* The responder's timestamp freshness window, seconds either way.
FRESHNESS_WINDOW == 300

(***************************************************************************)
(* Bounds of the model.                                                    *)
(***************************************************************************)
\* Key-lifecycle operations accepted per agent (caps Agent.nonce).
MaxNonce == 2
\* The first day of the run, as a day ordinal (unix_timestamp / 86400).
FirstDay == 1
\* after_registration calls recorded per user (caps UserState.registration_count,
\* a u8, far below 2^8).
MaxRecorded == 6
\* SessionManager.max_sessions of the run.
MaxSessions == 2
\* seal and open calls per HPKE context (caps HpkeContext.sequence, a u64).
MaxSequence == 3
\* Plaintexts a sender context seals for its receiver.
MaxPlaintexts == 3
\* Handshake envelopes the client makes.
MaxHandshakes == 2
\* The most segments a string given to Did::new is made of.
MaxSegments == 5

(***************************************************************************)
(* Principals, keys, strings.                                              *)
(***************************************************************************)
\* A string is known by its content and its length in bytes.
Str(id, len) == [id |-> id, len |-> len]
EmptyStr == Str("", 0)

Authority == "auth"
Owners == {"alice", "bob"}
Principals == Owners \cup {Authority}

DID1 == Str("did:sage:solana:a1", 18)
DID2 == Str("did:sage:solana:a2", 18)
DIDs == {DID1, DID2}

PubKeys == {"K1", "K2"}
ZeroKey == "K0"


NoAgent == [none |-> TRUE]
NoUser == [none |-> TRUE]
NoSession == [none |-> TRUE]
NoPair == [none |-> TRUE]
NoHook == "None"
HookProgram == "Hook1111"

(***************************************************************************)
(* Ed25519: a signature verifies under the key that made it, over the      *)
(* message it was made over, and under nothing else.                       *)
(***************************************************************************)
Sign(key, message) == [by |-> key, msg |-> message]

\* u64::to_le_bytes: eight bytes, least significant first.  (The u64
\* counters of the program, nonce and agent_count, stay far below 2^64 in
\* any run; their additions are written without the wrap.)
RECURSIVE LeBytes(_, _)
LeBytes(n, width) ==
    IF width = 0 THEN <<>> ELSE <<n % 256>> \o LeBytes(n \div 256, width - 1)

to_le_bytes(n) == LeBytes(n, 8)

\* Pubkey::as_ref and str::as_bytes: the principal's 32 bytes and the
\* string's bytes, each kept as one token of the concatenation.
KeyBytes(principal) == <<principal>>
StrBytes(string) == <<string>>

\* [owner.key().as_ref(), did.as_bytes()].concat()
RegistrationMessage(owner, did) == KeyBytes(owner) \o StrBytes(did)

\* The key-operation message without the nonce.
KeyOpMessage_NoNonce(owner, nonce) == KeyBytes(owner)

\* [owner.key().as_ref(), &agent.nonce.to_le_bytes()].concat()
KeyOpMessage(owner, nonce) == KeyBytes(owner) \o to_le_bytes(nonce)

verify_ed25519_signature(pubkey, message, signature) ==
    IF pubkey \in PubKeys /\ signature.by = pubkey /\ signature.msg = message
    THEN "Ok" ELSE "InvalidSignature"

(***************************************************************************)
(* sage-registry: the instruction handlers.                                *)
(***************************************************************************)
KeySlots == 0 .. (MAX_KEYS_PER_AGENT - 1)

\* The account as `init` leaves it: zeroed.
ZeroAgent ==
    [did |-> EmptyStr, name |-> EmptyStr, description |-> EmptyStr,
     endpoint |-> EmptyStr, capabilities |-> EmptyStr, owner |-> "",
     registered_at |-> 0, updated_at |-> 0, active |-> FALSE, nonce |-> 0,
     key_count |-> 0,
     public_keys |-> [i \in KeySlots |-> ZeroKey],
     key_types |-> [i \in KeySlots |-> 0],
     key_revoked |-> [i \in KeySlots |-> FALSE]]

Result(err, account) == [err |-> err, account |-> account]

\* A check of the first key only.
FirstRefusedKey_FirstOnly(i, public_keys, key_types, signatures, message) ==
    IF Len(public_keys) = 0 THEN -1
    ELSE IF key_types[1] # 0 THEN 0
    ELSE IF verify_ed25519_signature(public_keys[1], message, signatures[1]) # "Ok"
    THEN 0
    ELSE -1

\* The first index whose key type or ownership proof is refused, or -1.
RECURSIVE FirstRefusedKey(_, _, _, _, _)
FirstRefusedKey(i, public_keys, key_types, signatures, message) ==
    IF i >= Len(public_keys) THEN -1
    ELSE IF key_types[i + 1] # 0 THEN i
    ELSE IF verify_ed25519_signature(public_keys[i + 1], message,
                                     signatures[i + 1]) # "Ok" THEN i
    ELSE FirstRefusedKey(i + 1, public_keys, key_types, signatures, message)

StoreKeys(agent, public_keys, key_types) ==
    [agent EXCEPT
        !.public_keys = [i \in KeySlots |->
            IF i < Len(public_keys) THEN public_keys[i + 1] ELSE @[i]],
        !.key_types = [i \in KeySlots |->
            IF i < Len(public_keys) THEN key_types[i + 1] ELSE @[i]],
        !.key_revoked = [i \in KeySlots |->
            IF i < Len(public_keys) THEN FALSE ELSE @[i]]]

register_agent(agent, reg, owner, did, name, description, endpoint, capabilities, public_keys, key_types, signatures, clock) ==
    LET message == RegistrationMessage(owner, did)
        bad == FirstRefusedKey(0, public_keys, key_types, signatures, message)
    IN  IF did.len > MAX_DID_LEN THEN Result("DIDTooLong", agent)
        ELSE IF name.len > MAX_NAME_LEN THEN Result("NameTooLong", agent)
        ELSE IF description.len > MAX_DESCRIPTION_LEN
            THEN Result("DescriptionTooLong", agent)
        ELSE IF endpoint.len > MAX_ENDPOINT_LEN
            THEN Result("EndpointTooLong", agent)
        ELSE IF capabilities.len > MAX_CAPABILITIES_LEN
            THEN Result("CapabilitiesTooLong", agent)
        ELSE IF Len(public_keys) = 0 THEN Result("NoKeysProvided", agent)
        ELSE IF Len(public_keys) > MAX_KEYS_PER_AGENT
            THEN Result("TooManyKeys", agent)
        ELSE IF Len(public_keys) # Len(key_types)
            THEN Result("KeyArrayMismatch", agent)
        ELSE IF Len(public_keys) # Len(signatures)
            THEN Result("KeyArrayMismatch", agent)
        ELSE IF bad >= 0
            THEN Result(IF key_types[bad + 1] # 0 THEN "UnsupportedKeyType"
                        ELSE "InvalidSignature", agent)
        ELSE Result("Ok",
                StoreKeys([agent EXCEPT
                    !.did = did, !.name = name,
                    !.description = description, !.endpoint = endpoint,
                    !.capabilities = capabilities, !.owner = owner,
                    !.registered_at = clock, !.updated_at = clock,
                    !.active = TRUE, !.nonce = 0,
                    !.key_count = Len(public_keys) % 256],
                    public_keys, key_types))
             @@ [registry |->
                    [reg EXCEPT !.agent_count = @ + 1]]

ActiveKeys(agent) ==
    Cardinality({i \in KeySlots : i < agent.key_count /\ ~agent.key_revoked[i]})

add_key(agent, owner, public_key, key_type, signature, clock) ==
    LET message == KeyOpMessage(owner, agent.nonce)
        idx == agent.key_count
    IN  IF ~(agent.key_count < MAX_KEYS_PER_AGENT)
            THEN Result("TooManyKeys", agent)
        ELSE IF key_type # 0 THEN Result("UnsupportedKeyType", agent)
        ELSE IF verify_ed25519_signature(public_key, message, signature) # "Ok"
            THEN Result("InvalidSignature", agent)
        ELSE Result("Ok",
                [agent EXCEPT
                    !.public_keys[idx] = public_key,
                    !.key_types[idx] = key_type,
                    !.key_revoked[idx] = FALSE,
                    !.key_count = @ + 1,
                    !.nonce = @ + 1,
                    !.updated_at = clock])

\* revoke_key without the last-key check.
revoke_key_AnyKey(agent, key_index, clock) ==
    IF ~(key_index < agent.key_count) THEN Result("InvalidKeyIndex", agent)
    ELSE IF agent.key_revoked[key_index]
        THEN Result("KeyAlreadyRevoked", agent)
    ELSE Result("Ok",
            [agent EXCEPT
                !.key_revoked[key_index] = TRUE,
                !.nonce = @ + 1,
                !.updated_at = clock])

\* revoke_key that counts the active keys before it looks at the slot.
revoke_key_LastKeyFirst(agent, key_index, clock) ==
    IF ~(key_index < agent.key_count) THEN Result("InvalidKeyIndex", agent)
    ELSE IF ~(ActiveKeys(agent) > 1) THEN Result("CannotRevokeLastKey", agent)
    ELSE IF agent.key_revoked[key_index]
        THEN Result("KeyAlreadyRevoked", agent)
    ELSE Result("Ok",
            [agent EXCEPT
                !.key_revoked[key_index] = TRUE,
                !.nonce = @ + 1,
                !.updated_at = clock])

revoke_key(agent, key_index, clock) ==
    IF ~(key_index < agent.key_count) THEN Result("InvalidKeyIndex", agent)
    ELSE IF agent.key_revoked[key_index]
        THEN Result("KeyAlreadyRevoked", agent)
    ELSE IF ~(ActiveKeys(agent) > 1) THEN Result("CannotRevokeLastKey", agent)
    ELSE Result("Ok",
            [agent EXCEPT
                !.key_revoked[key_index] = TRUE,
                !.nonce = @ + 1,
                !.updated_at = clock])

\* rotate_key that forgets the nonce.
rotate_key_SameNonce(agent, owner, old_key_index, new_public_key, new_key_type, signature, clock) ==
    LET message == KeyOpMessage(owner, agent.nonce)
    IN  IF ~(old_key_index < agent.key_count)
            THEN Result("InvalidKeyIndex", agent)
        ELSE IF agent.key_revoked[old_key_index]
            THEN Result("KeyAlreadyRevoked", agent)
        ELSE IF new_key_type # 0 THEN Result("UnsupportedKeyType", agent)
        ELSE IF verify_ed25519_signature(new_public_key, message,
                                         signature) # "Ok"
            THEN Result("InvalidSignature", agent)
        ELSE Result("Ok",
                [agent EXCEPT
                    !.public_keys[old_key_index] = new_public_key,
                    !.key_types[old_key_index] = new_key_type,
                    !.updated_at = clock])

\* rotate_key that does not look at the slot's revoked flag.
rotate_key_RevokedSlot(agent, owner, old_key_index, new_public_key, new_key_type, signature, clock) ==
    LET message == KeyOpMessage(owner, agent.nonce)
    IN  IF ~(old_key_index < agent.key_count)
            THEN Result("InvalidKeyIndex", agent)
        ELSE IF new_key_type # 0 THEN Result("UnsupportedKeyType", agent)
        ELSE IF verify_ed25519_signature(new_public_key, message,
                                         signature) # "Ok"
            THEN Result("InvalidSignature", agent)
        ELSE Result("Ok",
                [agent EXCEPT
                    !.public_keys[old_key_index] = new_public_key,
                    !.key_types[old_key_index] = new_key_type,
                    !.nonce = @ + 1,
                    !.updated_at = clock])

rotate_key(agent, owner, old_key_index, new_public_key, new_key_type, signature, clock) ==
    LET message == KeyOpMessage(owner, agent.nonce)
    IN  IF ~(old_key_index < agent.key_count)
            THEN Result("InvalidKeyIndex", agent)
        ELSE IF agent.key_revoked[old_key_index]
            THEN Result("KeyAlreadyRevoked", agent)
        ELSE IF new_key_type # 0 THEN Result("UnsupportedKeyType", agent)
        ELSE IF verify_ed25519_signature(new_public_key, message,
                                         signature) # "Ok"
            THEN Result("InvalidSignature", agent)
        ELSE Result("Ok",
                [agent EXCEPT
                    !.public_keys[old_key_index] = new_public_key,
                    !.key_types[old_key_index] = new_key_type,
                    !.nonce = @ + 1,
                    !.updated_at = clock])

\* Option<String>::None
None == [none |-> TRUE]

\* The handler writes each field as soon as it has passed its own check; a
\* later failure returns the error with the earlier fields already written
\* in memory (the runtime then drops the transaction's writes).
\* update_agent that stores the endpoint without checking its length.
update_agent_AnyEndpoint(agent, name, description, endpoint, capabilities, clock) ==
    LET a1 == IF name # None THEN [agent EXCEPT !.name = name] ELSE agent
        a2 == IF description # None
              THEN [a1 EXCEPT !.description = description] ELSE a1
        a3 == IF endpoint # None THEN [a2 EXCEPT !.endpoint = endpoint] ELSE a2
        a4 == IF capabilities # None
              THEN [a3 EXCEPT !.capabilities = capabilities] ELSE a3
    IN  IF name # None /\ name.len > MAX_NAME_LEN
            THEN Result("NameTooLong", agent)
        ELSE IF description # None /\ description.len > MAX_DESCRIPTION_LEN
            THEN Result("DescriptionTooLong", a1)
        ELSE IF capabilities # None /\ capabilities.len > MAX_CAPABILITIES_LEN
            THEN Result("CapabilitiesTooLong", a3)
        ELSE Result("Ok", [a4 EXCEPT !.updated_at = clock])

update_agent(agent, name, description, endpoint, capabilities, clock) ==
    LET a1 == IF name # None THEN [agent EXCEPT !.name = name] ELSE agent
        a2 == IF description # None
              THEN [a1 EXCEPT !.description = description] ELSE a1
        a3 == IF endpoint # None THEN [a2 EXCEPT !.endpoint = endpoint] ELSE a2
        a4 == IF capabilities # None
              THEN [a3 EXCEPT !.capabilities = capabilities] ELSE a3
    IN  IF name # None /\ name.len > MAX_NAME_LEN
            THEN Result("NameTooLong", agent)
        ELSE IF description # None /\ description.len > MAX_DESCRIPTION_LEN
            THEN Result("DescriptionTooLong", a1)
        ELSE IF endpoint # None /\ endpoint.len > MAX_ENDPOINT_LEN
            THEN Result("EndpointTooLong", a2)
        ELSE IF capabilities # None /\ capabilities.len > MAX_CAPABILITIES_LEN
            THEN Result("CapabilitiesTooLong", a3)
        ELSE Result("Ok", [a4 EXCEPT !.updated_at = clock])

\* deactivate_agent that does not look at the active flag.
deactivate_agent_NoCheck(agent, clock) ==
    Result("Ok", [agent EXCEPT !.active = FALSE, !.updated_at = clock])

deactivate_agent(agent, clock) ==
    IF ~agent.active THEN Result("AgentAlreadyInactive", agent)
    ELSE Result("Ok", [agent EXCEPT !.active = FALSE, !.updated_at = clock])

set_verification_hook(reg, hook_program) ==
    Result("Ok", [reg EXCEPT !.verification_hook = hook_program])

(***************************************************************************)
(* sage-registry: the account constraints, checked before the handler.     *)
(***************************************************************************)
\* `init` that takes an address already in use (init_if_needed).
RegisterAgentAccounts_Reinit(existing) == "Ok"

\* #[account(init, seeds = [b"agent", did.as_bytes()])]: the address must
\* hold no account yet.
RegisterAgentAccounts(existing) ==
    IF existing # NoAgent THEN "AccountAlreadyInUse" ELSE "Ok"

\* #[account(mut, seeds = [b"agent", agent.did], has_one = owner)] with
\* owner: Signer.
\* UpdateAgent without has_one = owner.
UpdateAgentAccounts_AnySigner(existing, signer) ==
    IF existing = NoAgent THEN "AccountNotInitialized" ELSE "Ok"

UpdateAgentAccounts(existing, signer) ==
    IF existing = NoAgent THEN "AccountNotInitialized"
    ELSE IF existing.owner # signer THEN "ConstraintHasOne"
    ELSE "Ok"

\* #[account(mut, seeds = [b"registry"], has_one = authority)] with
\* authority: Signer.
SetHookAccounts(reg, signer) ==
    IF reg.authority # signer THEN "ConstraintHasOne" ELSE "Ok"

(***************************************************************************)
(* Time.                                                                   *)
(***************************************************************************)
SECONDS_PER_DAY == 86400

TimeAt(day, offset) == day * SECONDS_PER_DAY + offset

RegistryTimes == {TimeAt(FirstDay, 0), TimeAt(FirstDay, 60)}

\* What the last transaction was: the instruction, the account it named (a
\* DID, a user, a session id), its signer and the outcome.
Last(op, target, signer, err) ==
    [op |-> op, target |-> target, signer |-> signer, err |-> err]

Tick(times) ==
    /\ \E t \in times : t > now /\ now' = t
    /\ last' = Last("tick", "-", "-", "Ok")
    /\ UNCHANGED <<parsed, registryVars, hookVars, clientVars, peerVars>>

(***************************************************************************)
(* sage-registry: the inputs the instructions are tried with.              *)
(***************************************************************************)
RegKeyLists ==
    {<<>>, <<"K1">>, <<"K1", "K2">>, <<"K1", "K2", "K1", "K2", "K1">>,
     <<"K1", "K2", "K1", "K2", "K1", "K2">>}

AllEd25519(keys) == [i \in 1 .. Len(keys) |-> 0]

OwnershipProofs(keys, owner, did) ==
    [i \in 1 .. Len(keys) |-> Sign(keys[i], RegistrationMessage(owner, did))]

\* (public_keys, key_types, signatures) offered to register_agent: every key
\* list well-formed, and the two-key list with a key type that is not
\* Ed25519, a proof made for another owner, and a key type or a proof missing.
RegInputs(lists, owner, did) ==
    LET two == <<"K1", "K2">>
    IN  {<<k, AllEd25519(k), OwnershipProofs(k, owner, did)>> : k \in lists}
        \cup {<<two, <<0, 1>>, OwnershipProofs(two, owner, did)>>,
              <<two, <<0>>, OwnershipProofs(two, owner, did)>>,
              <<two, AllEd25519(two), OwnershipProofs(two, Authority, did)>>,
              <<two, AllEd25519(two), OwnershipProofs(<<"K1">>, owner, did)>>}

\* An address that already holds an account refuses every input alike: one
\* well-formed input is tried there.
RegInputsAt(existing, lists, owner, did) ==
    IF existing = NoAgent THEN RegInputs(lists, owner, did)
    ELSE {<<(<<"K1">>), AllEd25519(<<"K1">>),
            OwnershipProofs(<<"K1">>, owner, did)>>}

Name0 == Str("agent", 5)
Name1 == Str("renamed", MAX_NAME_LEN)
NameLong == Str("name-too-long", MAX_NAME_LEN + 1)
Desc0 == Str("about", MAX_DESCRIPTION_LEN)
DescLong == Str("about-too-long", MAX_DESCRIPTION_LEN + 1)
Endpoint0 == Str("https://a", MAX_ENDPOINT_LEN)
Caps0 == Str("[]", MAX_CAPABILITIES_LEN)

RegNames == {Name0, NameLong}

OtherOwner(owner) == CHOOSE o \in Owners : o # owner
OtherKey(key) == CHOOSE k \in PubKeys : k # key

NonceOf(agent) == IF agent = NoAgent THEN 0 ELSE agent.nonce
KeyCountOf(agent) == IF agent = NoAgent THEN 0 ELSE agent.key_count

\* The nonce before the current one (the current one at 0).
StaleNonce(agent) == IF NonceOf(agent) > 0 THEN NonceOf(agent) - 1 ELSE 0

\* (public_key, key_type, signature) offered to add_key and rotate_key by
\* `signer`: either key with its proof at the current nonce and at the one
\* before, a key type that is not Ed25519, a proof by the other key, a proof
\* for another owner.  A signer the account constraints refuse is refused
\* whatever the input: one input is tried.
KeyOpInputs(agent, signer) ==
    IF UpdateAgentAccounts(agent, signer) # "Ok"
    THEN {<<"K1", 0, Sign("K1", KeyOpMessage(signer, NonceOf(agent)))>>}
    ELSE
    {<<k, 0, Sign(k, KeyOpMessage(signer, n))>> :
        k \in PubKeys, n \in {NonceOf(agent), StaleNonce(agent)}}
    \cup {<<"K1", 1, Sign("K1", KeyOpMessage(signer, NonceOf(agent)))>>,
          <<"K1", 0, Sign("K2", KeyOpMessage(signer, NonceOf(agent)))>>,
          <<"K1", 0, Sign("K1", KeyOpMessage(OtherOwner(signer), NonceOf(agent)))>>}

\* Key indexes offered to revoke_key and rotate_key: every slot in use and
\* the first one past them.
KeyIndexes(agent, signer) ==
    IF UpdateAgentAccounts(agent, signer) # "Ok" THEN {0}
    ELSE 0 .. KeyCountOf(agent)

\* (name, description, endpoint, capabilities) offered to update_agent.
RenameInputs ==
    {<<None, None, None, None>>, <<Name1, None, None, None>>,
     <<Name1, DescLong, None, None>>, <<NameLong, None, None, None>>}

(***************************************************************************)
(* sage-registry: one transaction per action.  The runtime writes the      *)
(* accounts back only when the instruction returns Ok.                     *)
(***************************************************************************)
\* The bound on accepted key-lifecycle operations.
WithinRun(r, cap) == IF r.err # "Ok" THEN TRUE ELSE r.account.nonce <= cap

RegisterAgent(dids, signers, lists) ==
    \E did \in dids, owner \in signers, name \in RegNames :
    \E in \in RegInputsAt(agents[did], lists, owner, did) :
        LET acc == RegisterAgentAccounts(agents[did])
            r == IF acc # "Ok" THEN Result(acc, agents[did])
                 ELSE register_agent(ZeroAgent, registry, owner, did, name,
                                     Desc0, Endpoint0, Caps0, in[1], in[2],
                                     in[3], now)
        IN  /\ agents' = IF r.err = "Ok"
                          THEN [agents EXCEPT ![did] = r.account] ELSE agents
            /\ registry' = IF r.err = "Ok" THEN r.registry ELSE registry
            /\ last' = Last("register_agent", did.id, owner, r.err)
            /\ UNCHANGED <<parsed, now, hookVars, clientVars, peerVars>>

\* The instructions of the UpdateAgent accounts struct.
\* A runtime that writes the account back whatever the instruction returned.
UpdateAgentTx_NoRollback(op, did, signer, cap, r) ==
    /\ WithinRun(r, cap)
    /\ agents' = IF r.account # None
                  THEN [agents EXCEPT ![did] = r.account] ELSE agents
    /\ last' = Last(op, did.id, signer, r.err)
    /\ UNCHANGED <<parsed, now, registry, hookVars, clientVars, peerVars>>

UpdateAgentTx(op, did, signer, cap, r) ==
    /\ WithinRun(r, cap)
    /\ agents' = IF r.err = "Ok"
                  THEN [agents EXCEPT ![did] = r.account] ELSE agents
    /\ last' = Last(op, did.id, signer, r.err)
    /\ UNCHANGED <<parsed, now, registry, hookVars, clientVars, peerVars>>

Checked(acc, r) == IF acc # "Ok" THEN Result(acc, None) ELSE r

AddKey(dids, signers, cap) ==
    \E did \in dids, signer \in signers :
    \E in \in KeyOpInputs(agents[did], signer) :
        UpdateAgentTx("add_key", did, signer, cap,
            Checked(UpdateAgentAccounts(agents[did], signer),
                    add_key(agents[did], signer, in[1], in[2], in[3], now)))

RevokeKey(dids, signers, cap) ==
    \E did \in dids, signer \in signers :
    \E key_index \in KeyIndexes(agents[did], signer) :
        UpdateAgentTx("revoke_key", did, signer, cap,
            Checked(UpdateAgentAccounts(agents[did], signer),
                    revoke_key(agents[did], key_index, now)))

RotateKey(dids, signers, cap) ==
    \E did \in dids, signer \in signers :
    \E old_key_index \in KeyIndexes(agents[did], signer),
       in \in KeyOpInputs(agents[did], signer) :
        UpdateAgentTx("rotate_key", did, signer, cap,
            Checked(UpdateAgentAccounts(agents[did], signer),
                    rotate_key(agents[did], signer, old_key_index,
                               in[1], in[2], in[3], now)))

UpdateAgent(dids, signers, inputs, cap) ==
    \E did \in dids, signer \in signers, in \in inputs :
        UpdateAgentTx("update_agent", did, signer, cap,
            Checked(UpdateAgentAccounts(agents[did], signer),
                    update_agent(agents[did], in[1], in[2], in[3], in[4], now)))

DeactivateAgent(dids, signers, cap) ==
    \E did \in dids, signer \in signers :
        UpdateAgentTx("deactivate_agent", did, signer, cap,
            Checked(UpdateAgentAccounts(agents[did], signer),
                    deactivate_agent(agents[did], now)))

SetVerificationHook ==
    \E signer \in {Authority, "alice"}, hook_program \in {NoHook, HookProgram} :
        LET acc == SetHookAccounts(registry, signer)
            r == IF acc # "Ok" THEN Result(acc, registry)
                 ELSE set_verification_hook(registry, hook_program)
        IN  /\ registry' = IF r.err = "Ok" THEN r.account ELSE registry
            /\ last' = Last("set_verification_hook", "-", signer, r.err)
            /\ UNCHANGED <<parsed, now, agents, hookVars, clientVars, peerVars>>

(***************************************************************************)
(* sage-verification-hook: the instruction handlers.                       *)
(***************************************************************************)
\* The DID string verify_registration is given: its first four bytes, the
\* rest, and its length in bytes.
DidString(head, rest, len) == [head |-> head, id |-> rest, len |-> len]
starts_with(s, prefix) == s.head = prefix

\* A signature of `len` bytes made by `key` over `message`.
SignBytes(key, message, len) == [by |-> key, msg |-> message, len |-> len]

hook_verify_ed25519_signature(pubkey, message, signature) ==
    IF signature.len # 64 THEN "InvalidSignature"
    ELSE IF signature.by = pubkey /\ signature.msg = message THEN "Ok"
    ELSE "InvalidSignature"

initialize_user_state(user_state) ==
    Result("Ok", [registration_count |-> 0, last_registration |-> 0,
                  last_day |-> 0, blacklisted |-> FALSE])

\* verify_registration that looks at the cooldown before the blacklist.
verify_registration_CooldownFirst(user_state, signer, did, signature, message, clock) ==
    IF /\ user_state.last_registration > 0
       /\ ~(clock >= user_state.last_registration + REGISTRATION_COOLDOWN)
    THEN Result("CooldownActive", user_state)
    ELSE IF user_state.blacklisted THEN Result("Blacklisted", user_state)
    ELSE LET current_day == clock \div 86400
             counted == IF user_state.last_day # current_day
                        THEN [user_state EXCEPT !.registration_count = 0,
                                                !.last_day = current_day]
                        ELSE user_state
         IN  IF ~(counted.registration_count < MAX_REGISTRATIONS_PER_DAY)
             THEN Result("DailyLimitReached", counted)
             ELSE IF ~starts_with(did, "did:")
             THEN Result("InvalidDIDFormat", counted)
             ELSE IF ~(did.len >= 10)
             THEN Result("InvalidDIDFormat", counted)
             ELSE IF hook_verify_ed25519_signature(signer, message, signature) # "Ok"
             THEN Result("InvalidSignature", counted)
             ELSE Result("Ok", counted)

\* verify_registration that keeps the counter over the day boundary.
verify_registration_NoReset(user_state, signer, did, signature, message, clock) ==
    IF user_state.blacklisted THEN Result("Blacklisted", user_state)
    ELSE IF /\ user_state.last_registration > 0
            /\ ~(clock >= user_state.last_registration + REGISTRATION_COOLDOWN)
    THEN Result("CooldownActive", user_state)
    ELSE LET current_day == clock \div 86400
             counted == [user_state EXCEPT !.last_day = current_day]
         IN  IF ~(counted.registration_count < MAX_REGISTRATIONS_PER_DAY)
             THEN Result("DailyLimitReached", counted)
             ELSE IF ~starts_with(did, "did:")
             THEN Result("InvalidDIDFormat", counted)
             ELSE IF ~(did.len >= 10)
             THEN Result("InvalidDIDFormat", counted)
             ELSE IF hook_verify_ed25519_signature(signer, message, signature) # "Ok"
             THEN Result("InvalidSignature", counted)
             ELSE Result("Ok", counted)

\* verify_registration whose cooldown ends one second late.
verify_registration_StrictCooldown(user_state, signer, did, signature, message, clock) ==
    IF user_state.blacklisted THEN Result("Blacklisted", user_state)
    ELSE IF /\ user_state.last_registration > 0
            /\ ~(clock > user_state.last_registration + REGISTRATION_COOLDOWN)
    THEN Result("CooldownActive", user_state)
    ELSE LET current_day == clock \div 86400
             counted == IF user_state.last_day # current_day
                        THEN [user_state EXCEPT !.registration_count = 0,
                                                !.last_day = current_day]
                        ELSE user_state
         IN  IF ~(counted.registration_count < MAX_REGISTRATIONS_PER_DAY)
             THEN Result("DailyLimitReached", counted)
             ELSE IF ~starts_with(did, "did:")
             THEN Result("InvalidDIDFormat", counted)
             ELSE IF ~(did.len >= 10)
             THEN Result("InvalidDIDFormat", counted)
             ELSE IF hook_verify_ed25519_signature(signer, message, signature) # "Ok"
             THEN Result("InvalidSignature", counted)
             ELSE Result("Ok", counted)

verify_registration(user_state, signer, did, signature, message, clock) ==
    IF user_state.blacklisted THEN Result("Blacklisted", user_state)
    ELSE IF /\ user_state.last_registration > 0
            /\ ~(clock >= user_state.last_registration + REGISTRATION_COOLDOWN)
    THEN Result("CooldownActive", user_state)
    ELSE LET current_day == clock \div 86400
             counted == IF user_state.last_day # current_day
                        THEN [user_state EXCEPT !.registration_count = 0,
                                                !.last_day = current_day]
                        ELSE user_state
         IN  IF ~(counted.registration_count < MAX_REGISTRATIONS_PER_DAY)
             THEN Result("DailyLimitReached", counted)
             ELSE IF ~starts_with(did, "did:")
             THEN Result("InvalidDIDFormat", counted)
             ELSE IF ~(did.len >= 10)
             THEN Result("InvalidDIDFormat", counted)
             ELSE IF hook_verify_ed25519_signature(signer, message, signature) # "Ok"
             THEN Result("InvalidSignature", counted)
             ELSE Result("Ok", counted)

after_registration(user_state, clock) ==
    Result("Ok", [user_state EXCEPT !.registration_count = @ + 1,
                                    !.last_registration = clock])

add_to_blacklist(user_state) ==
    Result("Ok", [user_state EXCEPT !.blacklisted = TRUE])

remove_from_blacklist(user_state) ==
    Result("Ok", [user_state EXCEPT !.blacklisted = FALSE])

(***************************************************************************)
(* sage-verification-hook: the account constraints.                        *)
(***************************************************************************)
InitializeUserStateAccounts(existing) ==
    IF existing # NoUser THEN "AccountAlreadyInUse" ELSE "Ok"

VerifyRegistrationAccounts(existing, hook) ==
    IF existing = NoUser THEN "AccountNotInitialized"
    ELSE IF ~hook.enabled THEN "HookDisabled"
    ELSE "Ok"

AfterRegistrationAccounts(existing) ==
    IF existing = NoUser THEN "AccountNotInitialized" ELSE "Ok"

\* ManageBlacklist without has_one = authority.
ManageBlacklistAccounts_AnySigner(existing, hook, signer) ==
    IF existing = NoUser THEN "AccountNotInitialized" ELSE "Ok"

ManageBlacklistAccounts(existing, hook, signer) ==
    IF existing = NoUser THEN "AccountNotInitialized"
    ELSE IF hook.authority # signer THEN "ConstraintHasOne"
    ELSE "Ok"

(***************************************************************************)
(* sage-verification-hook: one transaction per action.                     *)
(***************************************************************************)
HookTimes ==
    {TimeAt(FirstDay, 0), TimeAt(FirstDay, 59), TimeAt(FirstDay, 60),
     TimeAt(FirstDay + 1, 0)}

HookMessage == <<"register">>

\* (did, signature, message) offered to verify_registration by `signer`: a
\* well-formed DID with the signer's signature, a DID of 9 bytes, a DID that
\* does not start with "did:", a signature of 63 bytes and one by another key.
VerifyInputs(signer) ==
    LET did == DidString("did:", "sage:solana:a1", 18)
        sig == SignBytes(signer, HookMessage, 64)
    IN  {<<did, sig, HookMessage>>,
         <<DidString("did:", "sage:", 9), sig, HookMessage>>,
         <<DidString("dix:", "sage:solana:a1", 18), sig, HookMessage>>,
         <<did, SignBytes(signer, HookMessage, 63), HookMessage>>,
         <<did, SignBytes(Authority, HookMessage, 64), HookMessage>>}

\* emit!(RegistrationRecorded { user, timestamp, .. }) added to the log.
RegistrationRecorded(log, user, timestamp) ==
    LET day == timestamp \div SECONDS_PER_DAY
    IN  [log EXCEPT ![user] = IF @.day = day THEN [@ EXCEPT !.count = @ + 1]
                              ELSE [day |-> day, count |-> 1]]

UserStateTx(op, user, signer, r) ==
    /\ users' = IF r.err = "Ok" THEN [users EXCEPT ![user] = r.account] ELSE users
    /\ recorded' = IF op = "after_registration" /\ r.err = "Ok"
                    THEN RegistrationRecorded(recorded, user, now)
                    ELSE recorded
    /\ last' = Last(op, user, signer, r.err)
    /\ UNCHANGED <<parsed, now, hook_state, registryVars, clientVars, peerVars>>

InitializeUserState(signers) ==
    \E signer \in signers :
        UserStateTx("initialize_user_state", signer, signer,
            Checked(InitializeUserStateAccounts(users[signer]),
                    initialize_user_state(users[signer])))

VerifyRegistration(signers) ==
    \E signer \in signers : \E in \in VerifyInputs(signer) :
        UserStateTx("verify_registration", signer, signer,
            Checked(VerifyRegistrationAccounts(users[signer], hook_state),
                    verify_registration(users[signer], signer, in[1], in[2],
                                        in[3], now)))

AfterRegistration(signers, cap) ==
    \E signer \in signers :
        /\ IF users[signer] = NoUser THEN TRUE
           ELSE users[signer].registration_count < cap
        /\ UserStateTx("after_registration", signer, signer,
               Checked(AfterRegistrationAccounts(users[signer]),
                       after_registration(users[signer], now)))

AddToBlacklist(targets, signers) ==
    \E target_user \in targets, authority \in signers :
        UserStateTx("add_to_blacklist", target_user, authority,
            Checked(ManageBlacklistAccounts(users[target_user], hook_state, authority),
                    add_to_blacklist(users[target_user])))

RemoveFromBlacklist(targets, signers) ==
    \E target_user \in targets, authority \in signers :
        UserStateTx("remove_from_blacklist", target_user, authority,
            Checked(ManageBlacklistAccounts(users[target_user], hook_state, authority),
                    remove_from_blacklist(users[target_user])))

\* The hook after its `initialize`, with no UserState account.
InitHook ==
    /\ hook_state = [authority |-> Authority, enabled |-> TRUE]
    /\ users = [u \in Owners |-> NoUser]
    /\ recorded = [u \in Owners |-> [day |-> 0, count |-> 0]]

(***************************************************************************)
(* sage-client: AES-256-GCM and the HPKE context (crypto.rs).  Nothing is  *)
(* rolled back here: what a call wrote before it failed stays written.     *)
(***************************************************************************)
RECURSIVE BeBytes(_, _)
BeBytes(n, width) ==
    IF width = 0 THEN <<>> ELSE Append(BeBytes(n \div 256, width - 1), n % 256)

to_be_bytes(n) == BeBytes(n, 8)

RECURSIVE from_be_bytes(_)
from_be_bytes(bytes) ==
    IF bytes = <<>> THEN 0
    ELSE from_be_bytes(SubSeq(bytes, 1, Len(bytes) - 1)) * 256 + bytes[Len(bytes)]

\* A symmetric key: which one, and its length in bytes.
Key(id, len) == [id |-> id, len |-> len]

\* The AEAD output: it opens under the key and nonce it was made with, and
\* only while no byte of it was changed.
Sealed(key, nonce, plaintext) ==
    [key |-> key, nonce |-> nonce, pt |-> plaintext, intact |-> TRUE]

CryptoResult(err, out) == [err |-> err, out |-> out]

encrypt_aes_gcm(plaintext, key, nonce_bytes) ==
    IF key.len # 32 THEN CryptoResult("Crypto", None)
    ELSE IF Len(nonce_bytes) # 12 THEN CryptoResult("Crypto", None)
    ELSE CryptoResult("Ok", Sealed(key, nonce_bytes, plaintext))

decrypt_aes_gcm(ciphertext, key, nonce_bytes) ==
    IF key.len # 32 THEN CryptoResult("Crypto", None)
    ELSE IF Len(nonce_bytes) # 12 THEN CryptoResult("Crypto", None)
    ELSE IF /\ ciphertext.intact
            /\ ciphertext.key = key
            /\ ciphertext.nonce = nonce_bytes
    THEN CryptoResult("Ok", ciphertext.pt)
    ELSE CryptoResult("Decryption", None)

\* The bytes on the wire: `len` bytes, the first 12 the nonce, the rest the
\* AEAD output (ciphertext and 16-byte tag).
Wire(nonce, body, len) == [len |-> len, nonce |-> nonce, body |-> body]

HpkeContext_new(key) == [key |-> key, sequence |-> 0]

\* seal that leaves the sequence where it was.
seal_KeepsSequence(ctx, plaintext) ==
    LET nonce_12 == <<0, 0, 0, 0>> \o to_be_bytes(ctx.sequence)
        r == encrypt_aes_gcm(plaintext, ctx.key, nonce_12)
    IN  [err |-> r.err,
         out |-> IF r.err = "Ok" THEN Wire(nonce_12, r.out, 12 + plaintext.len + 16)
                 ELSE None,
         ctx |-> ctx]

\* [err, out, ctx]: the outcome, the output and the context afterwards.
seal(ctx, plaintext) ==
    LET nonce_12 == <<0, 0, 0, 0>> \o to_be_bytes(ctx.sequence)
        r == encrypt_aes_gcm(plaintext, ctx.key, nonce_12)
    IN  [err |-> r.err,
         out |-> IF r.err = "Ok" THEN Wire(nonce_12, r.out, 12 + plaintext.len + 16)
                 ELSE None,
         ctx |-> [ctx EXCEPT !.sequence = @ + 1]]

\* open that leaves the sequence where it was.
open_KeepsSequence(ctx, ciphertext) ==
    IF ciphertext.len < 12
    THEN [err |-> "Decryption: Ciphertext too short", out |-> None, ctx |-> ctx]
    ELSE LET r == decrypt_aes_gcm(ciphertext.body, ctx.key, ciphertext.nonce)
         IN  [err |-> r.err, out |-> r.out, ctx |-> ctx]

open(ctx, ciphertext) ==
    IF ciphertext.len < 12
    THEN [err |-> "Decryption: Ciphertext too short", out |-> None, ctx |-> ctx]
    ELSE LET r == decrypt_aes_gcm(ciphertext.body, ctx.key, ciphertext.nonce)
         IN  [err |-> r.err, out |-> r.out,
              ctx |-> [ctx EXCEPT !.sequence = @ + 1]]

(***************************************************************************)
(* sage-client: X25519, HKDF and the HPKE setup (crypto.rs).               *)
(***************************************************************************)
\* An X25519 secret, and the public key made from a secret.
Secret(id) == [id |-> id, len |-> 32]
PublicKey_from(secret) == [pub_of |-> secret.id, len |-> 32]

\* X25519: the secret shared by a and b's public key is the one shared by b
\* and a's public key, and by no other pair.
diffie_hellman(secret, public) == {secret.id, public.pub_of}

\* HKDF-SHA256: `length` bytes fixed by the input key material and the info.
derive_key(shared_secret, info, length) ==
    Key([ikm |-> shared_secret, info |-> info], length)

\* [err, context, encapsulated_key], with `ephemeral` the secret OsRng gave.
setup_hpke_sender(receiver_public_key, ephemeral) ==
    IF receiver_public_key.len # 32
    THEN [err |-> "Crypto", context |-> None, encapsulated_key |-> None]
    ELSE LET shared_secret == diffie_hellman(ephemeral, receiver_public_key)
             key == derive_key(shared_secret, "SAGE HPKE v1", 32)
         IN  [err |-> "Ok", context |-> HpkeContext_new(key),
              encapsulated_key |-> PublicKey_from(ephemeral)]

\* A receiver that derives its key under another info string.
setup_hpke_receiver_OtherInfo(encapsulated_key, receiver_private_key) ==
    [err |-> "Ok",
     context |-> HpkeContext_new(derive_key(
         diffie_hellman(receiver_private_key, encapsulated_key), "SAGE HPKE v2", 32))]

setup_hpke_receiver(encapsulated_key, receiver_private_key) ==
    IF receiver_private_key.len # 32 THEN [err |-> "Crypto", context |-> None]
    ELSE IF encapsulated_key.len # 32 THEN [err |-> "Crypto", context |-> None]
    ELSE LET shared_secret == diffie_hellman(receiver_private_key, encapsulated_key)
             key == derive_key(shared_secret, "SAGE HPKE v1", 32)
         IN  [err |-> "Ok", context |-> HpkeContext_new(key)]

(***************************************************************************)
(* sage-client: Session and SessionManager (session.rs).                   *)
(***************************************************************************)
Session_new(session_id, client_did, server_did, hpke_context, max_age_seconds, clock) ==
    [session_id |-> session_id, client_did |-> client_did,
     server_did |-> server_did, hpke_context |-> hpke_context,
     created_at |-> clock, expires_at |-> clock + max_age_seconds,
     last_activity |-> clock, message_count |-> 0]

\* is_expired that counts the instant expires_at as expired.
is_expired_AtExpiry(session, clock) == clock >= session.expires_at

is_expired(session, clock) == clock > session.expires_at

update_activity(session, clock) ==
    IF is_expired(session, clock) THEN Result("SessionExpired", session)
    ELSE Result("Ok", [session EXCEPT !.last_activity = clock])

\* [err, account, out]: the outcome, the session afterwards and the output.
encrypt(session, plaintext, clock) ==
    IF is_expired(session, clock)
    THEN Result("SessionExpired", session) @@ [out |-> None]
    ELSE LET active == update_activity(session, clock)
         IN  IF active.err # "Ok" THEN active @@ [out |-> None]
             ELSE LET counted == [active.account EXCEPT !.message_count = @ + 1]
                      r == seal(counted.hpke_context, plaintext)
                  IN  Result(r.err, [counted EXCEPT !.hpke_context = r.ctx])
                          @@ [out |-> r.out]

decrypt(session, ciphertext, clock) ==
    IF is_expired(session, clock)
    THEN Result("SessionExpired", session) @@ [out |-> None]
    ELSE LET active == update_activity(session, clock)
         IN  IF active.err # "Ok" THEN active @@ [out |-> None]
             ELSE LET r == open(active.account.hpke_context, ciphertext)
                  IN  Result(r.err, [active.account EXCEPT !.hpke_context = r.ctx])
                          @@ [out |-> r.out]

\* HashMap::len of SessionManager.sessions.
StoredIds(map) == {id \in DOMAIN map : map[id] # NoSession}
SessionsLen(map) == Cardinality(StoredIds(map))

\* cleanup_expired that removes nothing.
cleanup_expired_Nothing(map, clock) == map

\* What cleanup_expired returns: `expired.len()`, the ids it collected.
cleanup_expired_count(map, clock) ==
    Cardinality({id \in DOMAIN map :
                    map[id] # NoSession /\ is_expired(map[id], clock)})

cleanup_expired(map, clock) ==
    [id \in DOMAIN map |->
        IF map[id] # NoSession /\ is_expired(map[id], clock)
        THEN NoSession ELSE map[id]]

\* add_session that checks the capacity before it sweeps.
add_session_CheckFirst(map, max_sessions, session, clock) ==
    IF SessionsLen(map) >= max_sessions
    THEN Result("Session", cleanup_expired(map, clock))
    ELSE Result("Ok", [cleanup_expired(map, clock) EXCEPT ![session.session_id] = session])

\* add_session without the capacity check.
add_session_NoLimit(map, max_sessions, session, clock) ==
    Result("Ok", [cleanup_expired(map, clock) EXCEPT ![session.session_id] = session])

add_session(map, max_sessions, session, clock) ==
    LET swept == cleanup_expired(map, clock)
    IN  IF SessionsLen(swept) >= max_sessions
        THEN Result("Session", swept)
        ELSE Result("Ok", [swept EXCEPT ![session.session_id] = session])

\* get_session that hands out whatever is stored.
get_session_ReturnsExpired(map, session_id, clock) ==
    IF map[session_id] # NoSession
    THEN Result("Some", map) @@ [session |-> map[session_id]]
    ELSE Result("None", map) @@ [session |-> NoSession]

\* [err, account, session]: Some/None, the map afterwards, the session found.
get_session(map, session_id, clock) ==
    IF map[session_id] # NoSession
    THEN IF is_expired(map[session_id], clock)
         THEN Result("None", [map EXCEPT ![session_id] = NoSession])
                 @@ [session |-> NoSession]
         ELSE Result("Some", map) @@ [session |-> map[session_id]]
    ELSE Result("None", map) @@ [session |-> NoSession]

remove_session(map, session_id) == [map EXCEPT ![session_id] = NoSession]

count(map, clock) ==
    LET swept == cleanup_expired(map, clock)
    IN  Result(SessionsLen(swept), swept)

clear(map) == [id \in DOMAIN map |-> NoSession]

(***************************************************************************)
(* sage-client: one call per action, made as Client makes it.              *)
(***************************************************************************)
SessionIds == {"s1", "s2", "s3"}
SessionKeys == {Key("k1", 32), Key("k2", 32)}
ClientDid == "did:sage:client"
ServerDid == "did:sage:server"
HandshakePlaintext == Str("handshake", 60)
Request == Str("request", 7)
Reply == Str("reply", 5)

ClientTimes ==
    {TimeAt(FirstDay, 0), TimeAt(FirstDay, SESSION_MAX_AGE),
     TimeAt(FirstDay, SESSION_MAX_AGE + 1)}

\* The log of opened sequences belongs to the Session object: it starts
\* again where the manager dropped or replaced the session.
OpenedAfter(map) ==
    [id \in DOMAIN map |-> IF map[id] = sessions[id] THEN opened[id] ELSE <<>>]

ManagerCall(op, target, err, map) ==
    /\ sessions' = map
    /\ opened' = OpenedAfter(map)
    /\ last' = Last(op, target, "client", err)
    /\ UNCHANGED <<parsed, now, registryVars, hookVars, peerVars>>

\* Client::handshake from the server's response on: the context has sealed
\* the handshake payload, Session::new stamps the session, add_session
\* stores it under the session id the server chose.
AddSession(ids, keys) ==
    \E session_id \in ids, key \in keys :
        LET hpke_ctx == seal(HpkeContext_new(key), HandshakePlaintext).ctx
            session == Session_new(session_id, ClientDid, ServerDid, hpke_ctx,
                                   SESSION_MAX_AGE, now)
            r == add_session(sessions, MaxSessions, session, now)
        IN  ManagerCall("add_session", session_id, r.err, r.account)

GetSession(ids) ==
    \E session_id \in ids :
        LET r == get_session(sessions, session_id, now)
        IN  ManagerCall("get_session", session_id, r.err, r.account)

RemoveSession(ids) ==
    \E session_id \in ids :
        ManagerCall("remove_session", session_id, "Ok",
                    remove_session(sessions, session_id))

CleanupExpired ==
    ManagerCall("cleanup_expired", "-", "Ok", cleanup_expired(sessions, now))

Count ==
    LET r == count(sessions, now)
    IN  ManagerCall("count", "-", "Ok", r.account)

Clear == ManagerCall("clear", "-", "Ok", clear(sessions))

\* Client::send_message up to the request: get_session, then Session::encrypt.
Encrypt(ids, cap) ==
    \E session_id \in ids :
        LET g == get_session(sessions, session_id, now)
        IN  IF g.err = "None"
            THEN ManagerCall("encrypt", session_id, "SessionNotFound", g.account)
            ELSE /\ g.session.hpke_context.sequence < cap
                 /\ LET r == encrypt(g.session, Request, now)
                    IN  /\ sessions' = [g.account EXCEPT ![session_id] = r.account]
                        /\ last' = Last("encrypt", session_id, "client", r.err)
                        /\ UNCHANGED <<parsed, now, opened, registryVars, hookVars, peerVars>>

\* The sequence a ciphertext carries in the low 8 bytes of its 12-byte nonce.
EmbeddedSequence(ciphertext) == from_be_bytes(SubSeq(ciphertext.nonce, 5, 12))

PeerSequences == {0, 1}

\* What the network hands to decrypt: the peer's replies sealed under the
\* session key at the peer's sequences, in any order and any number of times;
\* one of them with a byte changed; one sealed under another key; 11 bytes.
Ciphertexts(key) ==
    LET sealed(k, n) == seal([key |-> k, sequence |-> n], Reply).out
        foreign == {sealed(Key("k9", 32), 0), Wire(<<>>, None, 11)}
    IN  IF key.len # 32 THEN foreign
        ELSE {sealed(key, n) : n \in PeerSequences}
             \cup {[sealed(key, 0) EXCEPT !.body.intact = FALSE]}
             \cup foreign

\* Client::send_message from the response on: get_session, then
\* Session::decrypt.
Decrypt(ids, cap) ==
    \E session_id \in ids :
        LET g == get_session(sessions, session_id, now)
        IN  IF g.err = "None"
            THEN ManagerCall("decrypt", session_id, "SessionNotFound", g.account)
            ELSE /\ g.session.hpke_context.sequence < cap
                 /\ \E ciphertext \in Ciphertexts(g.session.hpke_context.key) :
                    LET r == decrypt(g.session, ciphertext, now)
                    IN  /\ sessions' = [g.account EXCEPT ![session_id] = r.account]
                        /\ opened' = IF r.err = "Ok"
                                     THEN [opened EXCEPT ![session_id] =
                                              Append(@, EmbeddedSequence(ciphertext))]
                                     ELSE opened
                        /\ last' = Last("decrypt", session_id, "client", r.err)
                        /\ UNCHANGED <<parsed, now, registryVars, hookVars, peerVars>>

\* Session::encrypt and Session::decrypt called on the Session itself, by a
\* caller that holds it (the &mut Session get_session gave out earlier).
SessionEncrypt(ids, cap) ==
    \E session_id \in ids :
        /\ sessions[session_id] # NoSession
        /\ sessions[session_id].hpke_context.sequence < cap
        /\ LET r == encrypt(sessions[session_id], Request, now)
           IN  /\ sessions' = [sessions EXCEPT ![session_id] = r.account]
               /\ last' = Last("Session::encrypt", session_id, "client", r.err)
               /\ UNCHANGED <<parsed, now, opened, registryVars, hookVars, peerVars>>

SessionDecrypt(ids, cap) ==
    \E session_id \in ids :
        /\ sessions[session_id] # NoSession
        /\ sessions[session_id].hpke_context.sequence < cap
        /\ \E ciphertext \in Ciphertexts(sessions[session_id].hpke_context.key) :
            LET r == decrypt(sessions[session_id], ciphertext, now)
            IN  /\ sessions' = [sessions EXCEPT ![session_id] = r.account]
                /\ opened' = IF r.err = "Ok"
                             THEN [opened EXCEPT ![session_id] =
                                      Append(@, EmbeddedSequence(ciphertext))]
                             ELSE opened
                /\ last' = Last("Session::decrypt", session_id, "client", r.err)
                /\ UNCHANGED <<parsed, now, registryVars, hookVars, peerVars>>

\* What the POST of Client::send_message comes back with: a transport error
\* (or timeout), a body whose `response` is not base64, or a ciphertext.
Responses(key) ==
    {[err |-> "Network", body |-> None], [err |-> "Base64Decode", body |-> None]}
    \cup {[err |-> "Ok", body |-> c] : c \in Ciphertexts(key)}

\* Client::send_message, whole: get_session, Session::encrypt, the POST,
\* get_session again, Session::decrypt.  Every `?` returns the error and
\* leaves the manager as it is by then.
SendMessage(ids, cap) ==
    \E session_id \in ids :
        LET g == get_session(sessions, session_id, now)
        IN  IF g.err = "None"
            THEN ManagerCall("send_message", session_id, "SessionNotFound", g.account)
            ELSE /\ g.session.hpke_context.sequence < cap
                 /\ \E response \in Responses(g.session.hpke_context.key) :
                    LET e == encrypt(g.session, Request, now)
                        sealed == [g.account EXCEPT ![session_id] = e.account]
                        g2 == get_session(sealed, session_id, now)
                        d == decrypt(g2.session, response.body, now)
                        err == IF e.err # "Ok" THEN e.err
                               ELSE IF response.err # "Ok" THEN response.err
                               ELSE IF g2.err = "None" THEN "SessionNotFound"
                               ELSE d.err
                        done == e.err = "Ok" /\ response.err = "Ok" /\ g2.err # "None"
                    IN  /\ sessions' = IF done
                                       THEN [g2.account EXCEPT ![session_id] = d.account]
                                       ELSE sealed
                        /\ opened' = IF err = "Ok"
                                     THEN [opened EXCEPT ![session_id] =
                                              Append(@, EmbeddedSequence(response.body))]
                                     ELSE opened
                        /\ last' = Last("send_message", session_id, "client", err)
                        /\ UNCHANGED <<parsed, now, registryVars, hookVars, peerVars>>

\* A caller of the library builds the context and the session itself:
\* HpkeContext::new(key) with a key of any length, Session::new,
\* add_session.
NewSession(ids, keys) ==
    \E session_id \in ids, key \in keys :
        LET session == Session_new(session_id, ClientDid, ServerDid,
                                   HpkeContext_new(key), SESSION_MAX_AGE, now)
            r == add_session(sessions, MaxSessions, session, now)
        IN  ManagerCall("add_session", session_id, r.err, r.account)

\* A sender context for the public key `receiver_pub` and a receiver context
\* set up with `receiver_priv` from the encapsulated key.
ReceiverSecrets == {Secret("x1"), Secret("x2")}
EphemeralSecrets == {Secret("e1"), Secret("e2")}
Plaintexts == {Str("P1", 2), Str("P2", 14)}

InitPair ==
    \E receiver_priv \in ReceiverSecrets, addressee \in ReceiverSecrets,
       ephemeral \in EphemeralSecrets :
        LET s == setup_hpke_sender(PublicKey_from(addressee), ephemeral)
            r == setup_hpke_receiver(s.encapsulated_key, receiver_priv)
        IN  pair = [receiver_priv |-> receiver_priv,
                    receiver_pub |-> PublicKey_from(addressee),
                    sender |-> s.context, receiver |-> r.context,
                    sent |-> <<>>, wire |-> <<>>, got |-> <<>>, back |-> <<>>]

\* sender_ctx.seal(plaintext); the ciphertext joins the ones on their way.
PairSeal(cap) ==
    \E plaintext \in Plaintexts :
        LET r == seal(pair.sender, plaintext)
        IN  /\ Len(pair.sent) < cap
            /\ pair' = [pair EXCEPT !.sender = r.ctx,
                                    !.sent = Append(@, plaintext),
                                    !.wire = Append(@, r.out)]
            /\ last' = Last("seal", "-", "sender", r.err)
            /\ UNCHANGED <<parsed, now, registryVars, hookVars, clientVars, server>>

\* receiver_ctx.open(ciphertext) of the ciphertexts in the order sealed.
PairOpen ==
    /\ pair.wire # <<>>
    /\ LET r == open(pair.receiver, Head(pair.wire))
       IN  /\ pair' = [pair EXCEPT !.receiver = r.ctx,
                                   !.wire = Tail(@),
                                   !.got = Append(@, [err |-> r.err, out |-> r.out])]
           /\ last' = Last("open", "-", "receiver", r.err)
           /\ UNCHANGED <<parsed, now, registryVars, hookVars, clientVars, server>>

\* receiver_ctx.seal(plaintext): the receiving side answers over the context
\* it opens with; the ciphertext joins the ones on their way back.
PairReply(cap) ==
    LET r == seal(pair.receiver, Reply)
    IN  /\ pair.receiver.sequence < cap
        /\ pair' = [pair EXCEPT !.receiver = r.ctx, !.back = Append(@, r.out)]
        /\ last' = Last("seal", "-", "receiver", r.err)
        /\ UNCHANGED <<parsed, now, registryVars, hookVars, clientVars, server>>

\* sender_ctx.open(ciphertext) of the answers in the order sealed.
PairOpenReply ==
    /\ pair.back # <<>>
    /\ LET r == open(pair.sender, Head(pair.back))
       IN  /\ pair' = [pair EXCEPT !.sender = r.ctx, !.back = Tail(@)]
           /\ last' = Last("open", "-", "sender", r.err)
           /\ UNCHANGED <<parsed, now, registryVars, hookVars, clientVars, server>>

\* sender_ctx.open(ciphertext) of whatever the network hands over, between
\* the seals of the same context: the other side's replies at its sequences,
\* in any order and any number of times, one with a byte changed, and 11
\* bytes.
ContextOpen(cap) ==
    \E n \in PeerSequences, kind \in {"sealed", "changed", "short"} :
        LET sealed == seal([key |-> pair.receiver.key, sequence |-> n], Reply).out
            ciphertext == IF kind = "sealed" THEN sealed
                          ELSE IF kind = "changed"
                              THEN [sealed EXCEPT !.body.intact = FALSE]
                          ELSE Wire(<<>>, None, 11)
            r == open(pair.sender, ciphertext)
        IN  /\ pair.sender.sequence < cap
            /\ pair' = [pair EXCEPT !.sender = r.ctx]
            /\ last' = Last("open", "-", "sender", r.err)
            /\ UNCHANGED <<parsed, now, registryVars, hookVars, clientVars, server>>

\* The responder's side of one message, over the context it got from
\* setup_hpke_receiver: open what came, and seal the answer with the same
\* context, numbered from its own counter.  [err, out, ctx].
Answer(ctx, ciphertext, plaintext) ==
    LET o == open(ctx, ciphertext)
    IN  IF o.err # "Ok" THEN o ELSE seal(o.ctx, plaintext)

\* Client::handshake over the pair: the client's context seals the handshake
\* payload; the responder answers; the client keeps the context as it is
\* after the seal and does not open the answer.  pair.wire and pair.back keep
\* what either side has sealed.
PairHandshake ==
    /\ pair.wire = <<>>
    /\ LET s == seal(pair.sender, HandshakePlaintext)
           a == Answer(pair.receiver, s.out, Str("ok", 2))
       IN  /\ pair' = [pair EXCEPT
                         !.sender = s.ctx,
                         !.receiver = a.ctx,
                         !.wire = Append(@, s.out),
                         !.back = IF a.err = "Ok" THEN Append(@, a.out) ELSE @]
           /\ last' = Last("handshake", "-", "sender",
                           IF a.err = "Ok" THEN "Ok" ELSE "Network")
           /\ UNCHANGED <<parsed, now, registryVars, hookVars, clientVars, server>>

\* Client::send_message over the pair: Session::encrypt seals the request,
\* the responder answers, and Session::decrypt opens the answer if the POST
\* brought one back.
PairExchange(cap) ==
    \E plaintext \in Plaintexts, delivered \in BOOLEAN :
        LET e == seal(pair.sender, plaintext)
            a == Answer(pair.receiver, e.out, Reply)
            d == open(e.ctx, a.out)
        IN  /\ pair.back # <<>>
            /\ pair.sender.sequence < cap
            /\ pair' = [pair EXCEPT
                          !.sender = IF delivered THEN d.ctx ELSE e.ctx,
                          !.receiver = a.ctx,
                          !.wire = Append(@, e.out),
                          !.back = Append(@, a.out)]
            /\ last' = Last("send_message", "-", "sender",
                            IF delivered THEN d.err ELSE "Network")
            /\ UNCHANGED <<parsed, now, registryVars, hookVars, clientVars, server>>

(***************************************************************************)
(* sage-client: the handshake (client.rs), and the responder it talks to.  *)
(* The responder is not part of the client: it is written from the         *)
(* protocol's description of what a server must do with an envelope.       *)
(***************************************************************************)
Crypto_sign(message, private_key) ==
    [signed_by |-> private_key.id, msg |-> message, len |-> 64]

Crypto_verify(message, signature, public_key) ==
    IF public_key.len # 32 THEN "Crypto"
    ELSE IF signature.len # 64 THEN "Crypto"
    ELSE IF signature.signed_by = public_key.pub_of /\ signature.msg = message
    THEN "Ok"
    ELSE "SignatureVerification"

base64_encode(data) == [b64 |-> data]
base64_decode(text) == text.b64

ClientIdentity == Secret("id-client")
ServerKem == Secret("kem-server")
OkPlaintext == Str("ok", 2)
SessionIdAt(n) == <<"s1", "s2", "s3">>[n]

\* The envelope Client::handshake signs and posts, and the context that
\* sealed its payload.
HandshakeRequest(ephemeral, timestamp) ==
    LET s == setup_hpke_sender(PublicKey_from(ServerKem), ephemeral)
        sealed == seal(s.context, HandshakePlaintext)
        message_b64 == base64_encode(<<s.encapsulated_key, sealed.out>>)
        to_sign == <<ClientDid, ServerDid, message_b64, timestamp>>
    IN  [hpke_ctx |-> sealed.ctx,
         request |-> [sender_did |-> ClientDid, receiver_did |-> ServerDid,
                      message |-> message_b64, timestamp |-> timestamp,
                      signature |-> base64_encode(Crypto_sign(to_sign, ClientIdentity))]]

Range(seq) == {seq[i] : i \in 1 .. Len(seq)}
Distance(a, b) == IF a >= b THEN a - b ELSE b - a

\* A responder that keeps the window and forgets what it has accepted.
EnvelopeVerdict_NoTracking(srv, request, clock) ==
    LET to_sign == <<request.sender_did, request.receiver_did, request.message,
                     request.timestamp>>
    IN  IF Crypto_verify(to_sign, base64_decode(request.signature),
                         PublicKey_from(ClientIdentity)) # "Ok"
        THEN "SignatureVerification"
        ELSE IF Distance(clock, request.timestamp) > FRESHNESS_WINDOW
        THEN "StaleTimestamp"
        ELSE "Ok"

\* The responder's checks on an envelope: the signature against the sender's
\* registered identity key, the freshness window, and that it has not
\* accepted this envelope before.
EnvelopeVerdict(srv, request, clock) ==
    LET to_sign == <<request.sender_did, request.receiver_did, request.message,
                     request.timestamp>>
    IN  IF Crypto_verify(to_sign, base64_decode(request.signature),
                         PublicKey_from(ClientIdentity)) # "Ok"
        THEN "SignatureVerification"
        ELSE IF Distance(clock, request.timestamp) > FRESHNESS_WINDOW
        THEN "StaleTimestamp"
        ELSE IF request \in Range(srv.allocated) THEN "Replay"
        ELSE "Ok"

\* The responder on an envelope: once the checks pass, decapsulate, allocate
\* a session and answer with "ok" sealed at sequence 0.
\* [err, session_id, response, server].
Respond(srv, request, clock) ==
    LET noted == [srv EXCEPT !.wire = @ \cup {request}]
        err == EnvelopeVerdict(srv, request, clock)
        message == base64_decode(request.message)
        ctx == setup_hpke_receiver(message[1], ServerKem).context
    IN  [err |-> err, session_id |-> SessionIdAt(Len(srv.allocated) + 1),
         response |-> IF err # "Ok" THEN None
                      ELSE seal(HpkeContext_new(ctx.key), OkPlaintext).out,
         server |-> IF err # "Ok" THEN noted
                    ELSE [noted EXCEPT !.allocated = Append(@, request)]]

HandshakeTimes ==
    {TimeAt(FirstDay, 0), TimeAt(FirstDay, FRESHNESS_WINDOW),
     TimeAt(FirstDay, FRESHNESS_WINDOW + 1)}

\* How far the client's clock runs ahead of the responder's.
ClockSkews == {0, FRESHNESS_WINDOW + 1}

\* Client::handshake, whole: seal the payload, sign and post the envelope;
\* on an answer, Session::new and add_session under the answer's
\* session_id.  The answer's `response` arrives as the responder sealed it
\* or with a byte changed on the way; handshake does not read it.  `last`
\* notes whose it is: the server's if it opens under the session's context,
\* an attacker's if not.
Handshake(ephemerals, skews, cap) ==
    \E ephemeral \in ephemerals, skew \in skews, changed \in BOOLEAN :
        LET h == HandshakeRequest(ephemeral, now + skew)
            answer == Respond(server, h.request, now)
            response == IF changed
                        THEN [answer.response EXCEPT !.body.intact = FALSE]
                        ELSE answer.response
            from == IF open(h.hpke_ctx, response).err = "Ok"
                    THEN "server" ELSE "attacker"
            session == Session_new(answer.session_id, ClientDid, ServerDid,
                                   h.hpke_ctx, SESSION_MAX_AGE, now)
            r == add_session(sessions, MaxSessions, session, now)
        IN  /\ Cardinality(server.wire) < cap
            /\ Len(server.allocated) < Cardinality(SessionIds)
            /\ h.request \notin server.wire
            /\ server' = answer.server
            /\ sessions' = IF answer.err = "Ok" THEN r.account ELSE sessions
            /\ opened' = OpenedAfter(sessions')
            /\ last' = IF answer.err # "Ok"
                       THEN Last("handshake", "-", "server", "Network")
                       ELSE Last("handshake", answer.session_id, from, r.err)
            /\ UNCHANGED <<parsed, now, registryVars, hookVars, pair>>

\* Someone on the network posts an envelope it has seen again, as it was or
\* with the timestamp brought up to date.
Replay ==
    \E seen \in server.wire, refreshed \in BOOLEAN :
        LET request == IF refreshed THEN [seen EXCEPT !.timestamp = now] ELSE seen
            answer == Respond(server, request, now)
        IN  /\ Len(server.allocated) < Cardinality(SessionIds)
            /\ server' = answer.server
            /\ last' = Last("replay", "-", "attacker", answer.err)
            /\ UNCHANGED <<parsed, now, registryVars, hookVars, clientVars, pair>>

(***************************************************************************)
(* sage-client: Did (did.rs).  A string is a sequence of pieces; ':' is a  *)
(* piece by itself and no other piece holds one.                           *)
(***************************************************************************)
NoDid == [input |-> <<>>, op |-> "none", out |-> None]

\* str::split(':'): the segments between the separators, one more than
\* there are separators.
RECURSIVE split(_, _)
split(s, sep) ==
    IF s = <<>> THEN << <<>> >>
    ELSE LET rest == split(Tail(s), sep)
         IN  IF Head(s) = sep THEN << <<>> >> \o rest
             ELSE << <<Head(s)>> \o rest[1] >> \o Tail(rest)

\* format!("did:sage:{}:{}", network, address).
format_did(network, address) ==
    <<"did", ":", "sage", ":">> \o network \o <<":">> \o address

Did_new(did_string) ==
    LET parts == split(did_string, ":")
    IN  IF Len(parts) # 4 THEN [did |-> None, err |-> "Validation"]
        ELSE IF parts[1] # <<"did">> THEN [did |-> None, err |-> "Validation"]
        ELSE IF parts[2] # <<"sage">> THEN [did |-> None, err |-> "Validation"]
        ELSE [did |-> [address |-> parts[4], did_string |-> did_string,
                       network |-> parts[3]],
              err |-> "Ok"]

Did_from_parts(network, address) ==
    [address |-> address, did_string |-> format_did(network, address),
     network |-> network]

\* Segments without a ':' in them.
Segments == {<<>>, <<"did">>, <<"sage">>, <<"eth">>, <<"sage", "eth">>}

\* What a caller hands to from_parts as network and as address: any &str.
PartInputs == Segments \cup {<<"eth", ":", "1">>, <<":">>}

\* Every list of 1 to n segments.
RECURSIVE SegmentLists(_)
SegmentLists(n) ==
    IF n = 0 THEN {}
    ELSE LET shorter == SegmentLists(n - 1)
         IN  shorter \cup {<<seg>> : seg \in Segments}
                     \cup {Append(l, seg) : l \in shorter, seg \in Segments}

\* The segments with a ':' between each two.
RECURSIVE Join(_)
Join(segs) ==
    IF Len(segs) = 1 THEN segs[1]
    ELSE segs[1] \o <<":">> \o Join(Tail(segs))

\* What the client is about to call Did with: a network and an address for
\* from_parts, or the segments of a string for Did::new.
DidInputs(parts, n) ==
    {[input |-> <<network, address>>, op |-> "parts", out |-> None] :
        network \in parts, address \in parts}
    \cup {[input |-> segs, op |-> "string", out |-> None] : segs \in SegmentLists(n)}

DidCall(op, out, err) ==
    /\ parsed' = [parsed EXCEPT !.op = op, !.out = out]
    /\ last' = Last(op, "-", "client", err)
    /\ UNCHANGED <<now, registryVars, hookVars, sessions, opened, peerVars>>

\* Did::from_parts(network, address).
FromParts ==
    /\ parsed.op = "parts"
    /\ DidCall("Did::from_parts",
               Did_from_parts(parsed.input[1], parsed.input[2]), "Ok")

\* Did::new on the string of the Did that from_parts built.
Reparse ==
    /\ parsed.op = "Did::from_parts"
    /\ LET r == Did_new(parsed.out.did_string)
       IN  DidCall("Did::new(from_parts)", r, r.err)

\* Did::new on the string made of the segments.
NewDid ==
    /\ parsed.op = "string"
    /\ LET r == Did_new(Join(parsed.input))
       IN  DidCall("Did::new", r, r.err)

InitServer == server = [wire |-> {}, allocated |-> <<>>]

\* SessionManager::new.
InitClient ==
    /\ sessions = [id \in SessionIds |-> NoSession]
    /\ opened = [id \in SessionIds |-> <<>>]
    /\ parsed = NoDid
    /\ pair = NoPair
    /\ InitServer

(***************************************************************************)
(* The registry after `initialize`, with no agent registered.              *)
(***************************************************************************)
InitRegistry ==
    /\ registry = [authority |-> Authority, agent_count |-> 0,
                   verification_hook |-> NoHook]
    /\ agents = [d \in DIDs |-> NoAgent]

\* One Agent account under every instruction and every input.
AgentInit ==
    /\ now = TimeAt(FirstDay, 0)
    /\ InitRegistry
    /\ InitHook
    /\ InitClient
    /\ last = Last("initialize", "-", Authority, "Ok")

AgentNext ==
    \/ RegisterAgent({DID1}, {"alice"}, RegKeyLists)
    \/ AddKey({DID1}, Owners, MaxNonce)
    \/ RevokeKey({DID1}, Owners, MaxNonce)
    \/ RotateKey({DID1}, Owners, MaxNonce)
    \/ UpdateAgent({DID1}, Owners, RenameInputs, MaxNonce)
    \/ DeactivateAgent({DID1}, Owners, MaxNonce)
    \/ Tick(RegistryTimes)

AgentSpec == AgentInit /\ [][AgentNext]_vars

(***************************************************************************)
(* register_agent alone, on two addresses, by either owner, with every     *)
(* key list.                                                               *)
(***************************************************************************)
RegisterNext ==
    \/ RegisterAgent(DIDs, Owners, RegKeyLists)
    \/ Tick(RegistryTimes)

RegisterSpec == AgentInit /\ [][RegisterNext]_vars

(***************************************************************************)
(* The registry with two DIDs: a1 is registered by alice and goes through  *)
(* the key lifecycle, a2 is registered by either owner; the authority (or  *)
(* alice) sets the verification hook.                                      *)
(***************************************************************************)
RegistryKeyLists == {<<>>, <<"K1">>}
RegistryRenames ==
    {<<None, None, None, None>>, <<Name1, None, None, None>>,
     <<Name1, DescLong, None, None>>}

RegistryInit == AgentInit

RegistryNext ==
    \/ RegisterAgent({DID1}, {"alice"}, RegistryKeyLists)
    \/ RegisterAgent({DID2}, Owners, RegistryKeyLists)
    \/ AddKey({DID1}, Owners, MaxNonce)
    \/ RevokeKey({DID1}, Owners, MaxNonce)
    \/ RotateKey({DID1}, Owners, MaxNonce)
    \/ UpdateAgent(DIDs, Owners, RegistryRenames, MaxNonce)
    \/ DeactivateAgent(DIDs, Owners, MaxNonce)
    \/ SetVerificationHook

RegistrySpec == RegistryInit /\ [][RegistryNext]_vars

(***************************************************************************)
(* The verification hook with one user, the authority managing the         *)
(* blacklist, and the clock.                                               *)
(***************************************************************************)
HookNext ==
    \/ InitializeUserState({"alice"})
    \/ VerifyRegistration({"alice"})
    \/ AfterRegistration({"alice"}, MaxRecorded)
    \/ AddToBlacklist({"alice"}, {Authority, "alice"})
    \/ RemoveFromBlacklist({"alice"}, {Authority, "alice"})
    \/ Tick(HookTimes)

HookSpec == AgentInit /\ [][HookNext]_vars

(***************************************************************************)
(* The registry with its verification hook set or not, and the hook.       *)
(***************************************************************************)
GuardedTimes == {TimeAt(FirstDay, 0), TimeAt(FirstDay, 60)}

GuardedNext ==
    \/ SetVerificationHook
    \/ RegisterAgent(DIDs, {"alice"}, RegistryKeyLists)
    \/ InitializeUserState({"alice"})
    \/ VerifyRegistration({"alice"})
    \/ AfterRegistration({"alice"}, MaxRecorded)
    \/ AddToBlacklist({"alice"}, {Authority})
    \/ RemoveFromBlacklist({"alice"}, {Authority})
    \/ Tick(GuardedTimes)

GuardedSpec == AgentInit /\ [][GuardedNext]_vars

(***************************************************************************)
(* The session manager of one client.                                      *)
(***************************************************************************)
ManagerNext ==
    \/ AddSession(SessionIds, SessionKeys)
    \/ GetSession(SessionIds)
    \/ RemoveSession(SessionIds)
    \/ CleanupExpired
    \/ Count
    \/ Clear
    \/ Encrypt({"s1"}, MaxSequence)
    \/ Tick(ClientTimes)

ManagerSpec == AgentInit /\ [][ManagerNext]_vars

(***************************************************************************)
(* One session and the ciphertexts that reach it.                          *)
(***************************************************************************)
ChannelNext ==
    \/ AddSession({"s1"}, {Key("k1", 32)})
    \/ Encrypt({"s1"}, MaxSequence)
    \/ Decrypt({"s1"}, MaxSequence)
    \/ Tick(ClientTimes)

ChannelSpec == AgentInit /\ [][ChannelNext]_vars

(***************************************************************************)
(* One session built by the caller, over a key of 32 or of 16 bytes.       *)
(***************************************************************************)
SessionNext ==
    \/ NewSession({"s1"}, {Key("k1", 32), Key("k0", 16)})
    \/ Encrypt({"s1"}, MaxSequence)
    \/ Decrypt({"s1"}, MaxSequence)
    \/ Tick(ClientTimes)

SessionSpec == AgentInit /\ [][SessionNext]_vars

(***************************************************************************)
(* One session whose holder calls it directly, up to and past its expiry.  *)
(***************************************************************************)
ExpiryNext ==
    \/ AddSession({"s1"}, {Key("k1", 32)})
    \/ SessionEncrypt({"s1"}, MaxSequence)
    \/ SessionDecrypt({"s1"}, MaxSequence)
    \/ Tick(ClientTimes)

ExpirySpec == AgentInit /\ [][ExpiryNext]_vars

(***************************************************************************)
(* Did values built from parts and parsed from strings.                    *)
(***************************************************************************)
DidInit ==
    /\ now = TimeAt(FirstDay, 0)
    /\ InitRegistry
    /\ InitHook
    /\ sessions = [id \in SessionIds |-> NoSession]
    /\ opened = [id \in SessionIds |-> <<>>]
    /\ parsed \in DidInputs(PartInputs, MaxSegments)
    /\ pair = NoPair
    /\ InitServer
    /\ last = Last("none", "-", "client", "Ok")

DidNext ==
    \/ FromParts
    \/ Reparse
    \/ NewDid

DidSpec == DidInit /\ [][DidNext]_vars

(***************************************************************************)
(* A sender and a receiver HPKE context, and plaintexts sealed by the one  *)
(* and opened by the other in the order sealed.                            *)
(***************************************************************************)
PairInit ==
    /\ now = TimeAt(FirstDay, 0)
    /\ InitRegistry
    /\ InitHook
    /\ sessions = [id \in SessionIds |-> NoSession]
    /\ opened = [id \in SessionIds |-> <<>>]
    /\ parsed = NoDid
    /\ InitPair
    /\ InitServer
    /\ last = Last("setup_hpke", "-", "sender", "Ok")

PairNext ==
    \/ PairSeal(MaxPlaintexts)
    \/ PairOpen

PairSpec == PairInit /\ [][PairNext]_vars

(***************************************************************************)
(* The two contexts with traffic both ways: each side seals for the other  *)
(* and opens what the other sealed, in the order sealed.                   *)
(***************************************************************************)
DuplexNext ==
    \/ PairSeal(MaxPlaintexts)
    \/ PairOpen
    \/ PairReply(MaxSequence + 1)
    \/ PairOpenReply

DuplexSpec == PairInit /\ [][DuplexNext]_vars

(***************************************************************************)
(* One context that seals, and in between opens what the network hands it; *)
(* the ciphertexts it has sealed are kept in pair.wire.                    *)
(***************************************************************************)
ContextNext ==
    \/ PairSeal(MaxPlaintexts)
    \/ ContextOpen(MaxSequence + MaxPlaintexts)

ContextSpec == PairInit /\ [][ContextNext]_vars

(***************************************************************************)
(* A handshake and the request/response exchanges that follow it, between  *)
(* the client's context and the responder's paired context.                *)
(***************************************************************************)
ExchangeNext ==
    \/ PairHandshake
    \/ PairExchange(MaxSequence + MaxPlaintexts)

ExchangeSpec == PairInit /\ [][ExchangeNext]_vars

(***************************************************************************)
(* One client sending messages over a session it has shaken hands for.     *)
(***************************************************************************)
SendNext ==
    \/ AddSession({"s1"}, {Key("k1", 32)})
    \/ SendMessage({"s1"}, MaxSequence)
    \/ Tick(ClientTimes)

SendSpec == AgentInit /\ [][SendNext]_vars

(***************************************************************************)
(* A client shaking hands with the responder, and a network that replays.  *)
(***************************************************************************)
HandshakeNext ==
    \/ Handshake(EphemeralSecrets, ClockSkews, MaxHandshakes)
    \/ Replay
    \/ Tick(HandshakeTimes)

HandshakeSpec == AgentInit /\ [][HandshakeNext]_vars

(***************************************************************************)
(* The hook under a caller that follows the protocol: after_registration   *)
(* is sent once for each verify_registration that passed, and time goes by *)
(* between the transactions.                                               *)
(***************************************************************************)
\* The last five minutes of the first day in steps of the cooldown, ending 30
\* seconds before midnight; then midnight, 30 seconds later, and the first
\* five minutes of the next day in steps of the cooldown.
LimitTimes ==
    {TimeAt(FirstDay, SECONDS_PER_DAY - 30 - REGISTRATION_COOLDOWN * k) : k \in 0 .. 4}
        \cup {TimeAt(FirstDay + 1, 0), TimeAt(FirstDay + 1, 30)}
        \cup {TimeAt(FirstDay + 1, REGISTRATION_COOLDOWN * k) : k \in 1 .. 5}

\* Time goes by between two transactions.
Elapse(times) ==
    /\ \E t \in times : t > now /\ now' = t
    /\ UNCHANGED <<parsed, registryVars, hookVars, clientVars, peerVars, last>>

\* The caller records the registration that verify_registration let through.
RecordRegistration(signers, cap) ==
    \E signer \in signers :
        /\ last.op = "verify_registration" /\ last.err = "Ok"
        /\ last.target = signer
        /\ AfterRegistration({signer}, cap)

LimitNext ==
    \/ InitializeUserState({"alice"})
    \/ VerifyRegistration({"alice"})
    \/ RecordRegistration({"alice"}, MaxRecorded)
    \/ Elapse(LimitTimes)

LimitSpec == AgentInit /\ [][LimitNext]_vars

(***************************************************************************)
(* Claims on one Agent account.                                            *)
(***************************************************************************)
Registered == {d \in DIDs : agents[d] # NoAgent}
DidOf(target) == CHOOSE d \in DIDs : d.id = target
KeyLifecycleOps == {"add_key", "revoke_key", "rotate_key"}
UpdateAgentOps == KeyLifecycleOps \cup {"update_agent", "deactivate_agent"}

NonRevoked(agent) ==
    {i \in 0 .. 4 : i < agent.key_count /\ agent.key_revoked[i] = FALSE}

\* C1: every registered agent, active or deactivated, has at least one
\* non-revoked key among its key_count keys, and at most 5 keys:
\* 1 <= |non-revoked| <= key_count <= 5 in every reachable state.
C1_KeyCountInvariant ==
    \A d \in Registered :
        /\ 1 <= Cardinality(NonRevoked(agents[d]))
        /\ Cardinality(NonRevoked(agents[d])) <= agents[d].key_count
        /\ agents[d].key_count <= 5

\* C1's case: the last key was refused revocation, and an agent holds 5 keys.
C1_Witness ==
    /\ last.op = "revoke_key" /\ last.err = "CannotRevokeLastKey"
    /\ \E d \in Registered :
        agents[d].key_count > 1 /\ Cardinality(NonRevoked(agents[d])) = 1

\* C2 (as claimed): once an agent is deactivated, every add_key, revoke_key,
\* rotate_key and update_agent on it is rejected and its record never
\* changes again.
C2_DeactivatedIsFrozen ==
    [][\A d \in Registered :
        ~agents[d].active =>
            /\ agents'[d] = agents[d]
            /\ (last'.op \in UpdateAgentOps /\ last'.target = d.id)
                    => last'.err # "Ok"]_vars

\* C7: an agent's nonce is 0 at registration and afterwards changes only by
\* +1, on exactly the accepted add_key, revoke_key and rotate_key; every
\* other step (update_agent, deactivate_agent, a rejected instruction, the
\* clock) leaves it as it is.
C7_NonceCountsKeyOps ==
    [][\A d \in DIDs :
        /\ (agents[d] = NoAgent /\ agents'[d] # NoAgent) => agents'[d].nonce = 0
        /\ agents[d] # NoAgent =>
            /\ agents'[d] # NoAgent
            /\ agents'[d].nonce = agents[d].nonce +
                    (IF /\ last'.op \in KeyLifecycleOps
                        /\ last'.target = d.id
                        /\ last'.err = "Ok"
                     THEN 1 ELSE 0)]_vars

\* C7's case: key operations of all three kinds were accepted, then a
\* metadata update.
C7_Witness ==
    /\ last.op = "update_agent" /\ last.err = "Ok"
    /\ \E d \in Registered : agents[d].nonce = MaxNonce /\ agents[d].name = Name1

(***************************************************************************)
(* Claims on the registry.                                                 *)
(***************************************************************************)
\* C8: register_agent on a DID that already has an Agent account (active or
\* deactivated, whoever signs) is rejected and changes neither any agent
\* record nor Registry.agent_count: there is never a second account for a DID.
C8_OneAgentPerDid ==
    [][(last'.op = "register_agent" /\ agents[DidOf(last'.target)] # NoAgent)
        => /\ last'.err # "Ok"
           /\ agents' = agents
           /\ registry' = registry]_vars

\* C8's case: a deactivated agent's DID was tried again by another principal.
C8_Witness ==
    /\ last.op = "register_agent" /\ last.err = "AccountAlreadyInUse"
    /\ agents[DidOf(last.target)] # NoAgent
    /\ ~agents[DidOf(last.target)].active
    /\ agents[DidOf(last.target)].owner # last.signer
    /\ registry.agent_count = 2

\* C9: an add_key, revoke_key, rotate_key, update_agent or deactivate_agent
\* signed by a principal other than agent.owner is rejected and leaves every
\* agent as it was, an agent record changes only in a step signed by its
\* owner, and Registry.verification_hook changes only in a
\* set_verification_hook signed by the registry authority.
C9_OnlyOwnerMutates ==
    [][/\ (/\ last'.op \in UpdateAgentOps
           /\ agents[DidOf(last'.target)] # NoAgent
           /\ last'.signer # agents[DidOf(last'.target)].owner)
            => (last'.err # "Ok" /\ agents' = agents)
       /\ \A d \in Registered :
            agents'[d] # agents[d] => last'.signer = agents[d].owner
       /\ (last'.op = "set_verification_hook" /\ last'.signer # registry.authority)
            => (last'.err # "Ok" /\ registry' = registry)
       /\ registry'.verification_hook # registry.verification_hook
            => (/\ last'.op = "set_verification_hook"
                /\ last'.signer = registry.authority)]_vars

\* C9's case: with the hook set by the authority, a key rotation signed by
\* someone who is not the owner was refused.
C9_Witness ==
    /\ registry.verification_hook = HookProgram
    /\ last.op = "rotate_key" /\ last.err = "ConstraintHasOne"
    /\ agents[DidOf(last.target)].owner # last.signer

(***************************************************************************)
(* Claims on the verification hook.                                        *)
(***************************************************************************)
\* What verify_registration answers `owner` now, given a well-formed DID and
\* the owner's own signature.
HookAnswer(owner) ==
    verify_registration(users[owner], owner, DidString("did:", "sage:solana:a1", 18),
                        SignBytes(owner, HookMessage, 64), HookMessage, now).err

\* C3: while Registry.verification_hook is set, a register_agent is committed
\* only if the hook's verify_registration checks pass for the owner at that
\* moment: not for an owner whose UserState is blacklisted, inside the
\* 60-second cooldown, or at 5 registrations on the current day.
C3_HookGuardsRegistration ==
    [][(/\ last'.op = "register_agent" /\ last'.err = "Ok"
        /\ registry.verification_hook # NoHook
        /\ users[last'.signer] # NoUser)
        => HookAnswer(last'.signer)
              \notin {"Blacklisted", "CooldownActive", "DailyLimitReached"}]_vars

\* C4: for every hook user, in every reachable state, if last_day is the
\* current day (now / 86400) then registration_count <= 5.
C4_DailyLimit ==
    \A u \in Owners :
        (users[u] # NoUser /\ users[u].last_day = now \div 86400)
            => users[u].registration_count <= MAX_REGISTRATIONS_PER_DAY

(***************************************************************************)
(* Claims on the client's sessions.                                        *)
(***************************************************************************)
\* Sessions stored and not expired at `clock`.
LiveIds(map, clock) == {id \in StoredIds(map) : ~is_expired(map[id], clock)}

\* C5: add_session never removes or replaces a session that is not expired:
\* every live session stored before the call is stored unchanged after it,
\* also when the new session carries the same session_id.
C5_AddNeverEvicts ==
    [][last'.op = "add_session"
        => \A id \in LiveIds(sessions, now) : sessions'[id] = sessions[id]]_vars

RECURSIVE StrictlyIncreasing(_)
StrictlyIncreasing(log) ==
    IF Len(log) < 2 THEN TRUE
    ELSE log[1] < log[2] /\ StrictlyIncreasing(Tail(log))

\* C6: Session.decrypt accepts a ciphertext only if its embedded sequence is
\* greater than every sequence the session accepted before: the sequences
\* opened by a session are strictly increasing (no replay, no reordering).
C6_NoReplay ==
    \A id \in StoredIds(sessions) : StrictlyIncreasing(opened[id])

\* C10: the manager never stores more than max_sessions sessions; an
\* add_session made while max_sessions sessions are live fails with the
\* too-many-sessions error and inserts nothing; an add_session made while
\* fewer are live succeeds, and removing a live session leaves fewer than
\* max_sessions live, so the add_session that follows succeeds.
C10_CapacityRejects ==
    [][/\ SessionsLen(sessions') <= MaxSessions
       /\ last'.op = "add_session" =>
            IF Cardinality(LiveIds(sessions, now)) >= MaxSessions
            THEN /\ last'.err = "Session"
                 /\ sessions' = cleanup_expired(sessions, now)
            ELSE /\ last'.err = "Ok"
                 /\ sessions'[last'.target] # NoSession
       /\ (last'.op = "remove_session" /\ last'.target \in LiveIds(sessions, now))
            => Cardinality(LiveIds(sessions', now)) < MaxSessions]_vars

\* C10's case: max_sessions live sessions are stored and an add_session has
\* just been refused.
C10_Witness ==
    /\ last.op = "add_session" /\ last.err = "Session"
    /\ Cardinality(LiveIds(sessions, now)) = MaxSessions
    /\ last.target \notin StoredIds(sessions)

\* C11: message_count counts the encrypt calls that returned Ok: over an
\* encrypt or decrypt on a session, message_count grows by one when the call
\* was an encrypt that returned Ok, and stays as it was otherwise (an encrypt
\* that failed, a decrypt).
C11_MessageCountCountsSends ==
    [][\A id \in StoredIds(sessions) :
        (/\ last'.op \in {"encrypt", "decrypt"} /\ last'.target = id
         /\ sessions'[id] # NoSession)
        => sessions'[id].message_count = sessions[id].message_count
              + (IF last'.op = "encrypt" /\ last'.err = "Ok" THEN 1 ELSE 0)]_vars

\* C12: with a sender context from setup_hpke_sender(receiver_pub) and a
\* receiver context from setup_hpke_receiver(encapsulated_key, receiver_priv)
\* where receiver_pub is the public key of receiver_priv, the i-th open of the
\* ciphertexts sealed from P1..Pn, taken in order, returns Ok(Pi).
C12_InOrderRoundTrip ==
    pair.receiver_pub = PublicKey_from(pair.receiver_priv)
        => /\ Len(pair.got) <= Len(pair.sent)
           /\ \A i \in 1 .. Len(pair.got) :
                pair.got[i] = [err |-> "Ok", out |-> pair.sent[i]]

\* C12's case: a matching pair has sealed and opened MaxPlaintexts
\* plaintexts, not all the same.
C12_Witness ==
    /\ pair.receiver_pub = PublicKey_from(pair.receiver_priv)
    /\ Len(pair.got) = MaxPlaintexts
    /\ pair.sent[1] # pair.sent[2]
    /\ pair.receiver.sequence = MaxPlaintexts

\* C13: once a decrypt on a session has failed with an AEAD authentication
\* error, the session accepts no further traffic: the encrypt or decrypt that
\* comes next on that session fails.
C13_NoTrafficAfterAeadFailure ==
    [][(/\ last.op = "decrypt" /\ last.err = "Decryption"
        /\ last'.op \in {"encrypt", "decrypt"}
        /\ last'.target = last.target)
        => last'.err # "Ok"]_vars

\* C14: a send_message that fails after Session::encrypt sealed the message
\* (transport error, timeout, undecodable response) has no lasting effect on
\* a usable session: the HPKE sequence is where it was before the call, or
\* the session is gone from the manager.
C14_FailedSendLeavesNoTrace ==
    [][\A id \in StoredIds(sessions) :
        (/\ last'.op = "send_message" /\ last'.target = id
         /\ last'.err \in {"Network", "Base64Decode"})
        => \/ sessions'[id] = NoSession
           \/ sessions'[id].hpke_context.sequence
                 = sessions[id].hpke_context.sequence]_vars

C16_HandshakeOpensResponse ==
    [][(last'.op = "handshake" /\ last'.signer = "attacker")
        => (last'.err # "Ok" /\ sessions' = sessions)]_vars


\* C17: revoke_key(key_index) by the owner is rejected with InvalidKeyIndex
\* when key_index >= key_count, otherwise with KeyAlreadyRevoked when the slot
\* is already revoked (even with one key left active), otherwise with
\* CannotRevokeLastKey when the slot holds the only non-revoked key; a rejected
\* revoke_key leaves the revoked flags, nonce and updated_at as they were.
C17_RevokeKeyErrorOrder ==
    [][LET rejections == {"InvalidKeyIndex", "KeyAlreadyRevoked",
                          "CannotRevokeLastKey"}
           claimed(agent, key_index) ==
               IF key_index >= agent.key_count THEN "InvalidKeyIndex"
               ELSE IF agent.key_revoked[key_index] = TRUE
                   THEN "KeyAlreadyRevoked"
               ELSE IF NonRevoked(agent) = {key_index}
                   THEN "CannotRevokeLastKey"
               ELSE "Ok"
       IN  \A d \in Registered :
            /\ \A key_index \in 0 .. MAX_KEYS_PER_AGENT :
                LET r == Checked(UpdateAgentAccounts(agents[d], agents[d].owner),
                                 revoke_key(agents[d], key_index, now))
                IN  /\ r.err = claimed(agents[d], key_index)
                    /\ r.err \in rejections => r.account = agents[d]
            /\ (last'.op = "revoke_key" /\ last'.target = d.id
                    /\ last'.err \in rejections) =>
                /\ agents'[d].key_revoked = agents[d].key_revoked
                /\ agents'[d].nonce = agents[d].nonce
                /\ agents'[d].updated_at = agents[d].updated_at]_vars

\* C17's case: an already revoked slot was refused as KeyAlreadyRevoked on an
\* agent with a single active key left.
C17_Witness ==
    /\ last.op = "revoke_key" /\ last.err = "KeyAlreadyRevoked"
    /\ \E d \in Registered :
        /\ last.target = d.id
        /\ agents[d].key_count > 1 /\ Cardinality(NonRevoked(agents[d])) = 1


(***************************************************************************)
(* Claims on the hook's cooldown and daily limit.                          *)
(***************************************************************************)
\* C18: after_registration records the time t of the registration as the
\* user's last_registration; a verify_registration by a user who is not
\* blacklisted and whose latest registration was recorded at t is rejected
\* with CooldownActive when now < t + 60 and is not rejected with
\* CooldownActive when now >= t + 60.
C18_CooldownBoundary ==
    [][\A u \in Owners :
        (users[u] # NoUser /\ last'.target = u) =>
            /\ (last'.op = "after_registration" /\ last'.err = "Ok")
                    => users'[u].last_registration = now
            /\ (/\ last'.op = "verify_registration"
                /\ ~users[u].blacklisted
                /\ users[u].last_registration > 0)
                    => (last'.err = "CooldownActive"
                            <=> now < users[u].last_registration
                                        + REGISTRATION_COOLDOWN)]_vars

\* C18's case: a verify_registration exactly 60 seconds after the recorded
\* registration has passed.
C18_Witness ==
    /\ last.op = "verify_registration" /\ last.err = "Ok"
    /\ users[last.target].registration_count > 0
    /\ now = users[last.target].last_registration + REGISTRATION_COOLDOWN


\* C19 (as claimed): a user who is not blacklisted and reached
\* registration_count = 5 on day N is accepted by verify_registration, given a
\* well-formed DID and a valid signature, at any time on day N+1, the first
\* second included; the counter is reset to 0 and last_day set to N+1.
C19_NextDayAccepted ==
    [][\A u \in Owners :
        LET today == now \div SECONDS_PER_DAY
            r == Checked(VerifyRegistrationAccounts(users[u], hook_state),
                     verify_registration(users[u], u,
                         DidString("did:", "sage:solana:a1", 18),
                         SignBytes(u, HookMessage, 64), HookMessage, now))
        IN  (/\ users[u] # NoUser
             /\ ~users[u].blacklisted
             /\ users[u].registration_count = MAX_REGISTRATIONS_PER_DAY
             /\ users[u].last_day + 1 = today)
            => /\ r.err = "Ok"
               /\ r.account.registration_count = 0
               /\ r.account.last_day = today]_vars

\* C19 (amended): a user who is not blacklisted and reached
\* registration_count = 5 on day N is accepted by verify_registration, given a
\* well-formed DID and a valid signature, at any time on day N+1 that is at
\* least 60 seconds after its last recorded registration; the counter is
\* reset to 0 and last_day set to N+1.
C19_NextDayAcceptedAfterCooldown ==
    [][\A u \in Owners :
        LET today == now \div SECONDS_PER_DAY
            r == Checked(VerifyRegistrationAccounts(users[u], hook_state),
                     verify_registration(users[u], u,
                         DidString("did:", "sage:solana:a1", 18),
                         SignBytes(u, HookMessage, 64), HookMessage, now))
        IN  (/\ users[u] # NoUser
             /\ ~users[u].blacklisted
             /\ users[u].registration_count = MAX_REGISTRATIONS_PER_DAY
             /\ users[u].last_day + 1 = today
             /\ now >= users[u].last_registration + REGISTRATION_COOLDOWN)
            => /\ r.err = "Ok"
               /\ r.account.registration_count = 0
               /\ r.account.last_day = today
               /\ (/\ last'.op = "verify_registration" /\ last'.target = u
                   /\ last'.err = "Ok" /\ now' = now)
                  => /\ users'[u].registration_count = 0
                     /\ users'[u].last_day = today]_vars

\* C19's case: on the day after five registrations were recorded, and less
\* than two minutes into it, verify_registration passed and reset the counter.
C19_Witness ==
    /\ last.op = "verify_registration" /\ last.err = "Ok"
    /\ LET u == last.target
           today == now \div SECONDS_PER_DAY
       IN  /\ recorded[u] = [day |-> today - 1,
                             count |-> MAX_REGISTRATIONS_PER_DAY]
           /\ users[u].registration_count = 0
           /\ users[u].last_day = today
           /\ now < users[u].last_registration + 2 * REGISTRATION_COOLDOWN


\* C20 (as claimed): once five registrations of a user have been recorded on
\* day D, each an after_registration that follows a verify_registration that
\* passed and at least 60 seconds after the one before, every further
\* verify_registration by the user on day D with the cooldown satisfied is
\* rejected with DailyLimitReached.
C20_SixthIsRejected ==
    [][\A u \in Owners :
        (/\ users[u] # NoUser
         /\ recorded[u].day = now \div SECONDS_PER_DAY
         /\ recorded[u].count >= MAX_REGISTRATIONS_PER_DAY
         /\ now >= users[u].last_registration + REGISTRATION_COOLDOWN
         /\ last'.op = "verify_registration" /\ last'.target = u
         /\ now' = now)
        => last'.err = "DailyLimitReached"]_vars


(***************************************************************************)
(* Claims on session expiry and the manager's sweep.                       *)
(***************************************************************************)
\* C21: a session is expired exactly when now > expires_at.  Session::encrypt
\* and Session::decrypt called at now <= expires_at, now = expires_at
\* included, are not refused as expired (encrypt succeeds); called at any
\* now >= expires_at + 1 they fail with SessionExpired and leave
\* message_count, last_activity and the HPKE sequence as they were.
C21_ExpiredExactlyAfterExpiresAt ==
    [][\A id \in StoredIds(sessions) :
        (last'.op \in {"Session::encrypt", "Session::decrypt"} /\ last'.target = id)
        => IF now >= sessions[id].expires_at + 1
           THEN /\ last'.err = "SessionExpired"
                /\ sessions'[id].message_count = sessions[id].message_count
                /\ sessions'[id].last_activity = sessions[id].last_activity
                /\ sessions'[id].hpke_context.sequence
                       = sessions[id].hpke_context.sequence
           ELSE /\ last'.err # "SessionExpired"
                /\ last'.op = "Session::encrypt" => last'.err = "Ok"]_vars

\* C21's case: a ciphertext was opened at the very instant expires_at.
C21_Witness ==
    /\ last.op = "Session::decrypt" /\ last.err = "Ok"
    /\ now = sessions[last.target].expires_at
    /\ sessions[last.target].last_activity = now


\* C22: add_session sweeps the expired sessions before it checks the
\* capacity: on a manager holding max_sessions sessions of which at least one
\* is expired at the call, add_session succeeds, and count() afterwards
\* returns the number of sessions that are not expired, the new one among
\* them.
C22_SweepBeforeCapacity ==
    [][(/\ last'.op = "add_session"
        /\ SessionsLen(sessions) = MaxSessions
        /\ \E id \in StoredIds(sessions) : is_expired(sessions[id], now))
       => /\ last'.err = "Ok"
          /\ sessions'[last'.target] # NoSession
          /\ count(sessions', now').err
                = Cardinality(LiveIds(sessions, now) \cup {last'.target})
          /\ count(sessions', now').err = Cardinality(LiveIds(sessions', now'))]_vars

\* C22's case: a full manager took s3 in after the expiry of another session,
\* next to a session that was stored before and is still live.
C22_Witness ==
    /\ last.op = "add_session" /\ last.err = "Ok" /\ last.target = "s3"
    /\ sessions["s3"].created_at = now
    /\ now > TimeAt(FirstDay, SESSION_MAX_AGE)
    /\ \E id \in StoredIds(sessions) : sessions[id].created_at < now
    /\ count(sessions, now).err = MaxSessions


\* C23: get_session(id) never returns an expired session.  A session stored
\* under id and expired is removed from the map and None is returned; one
\* stored and live is returned and the map is unchanged; the sessions under
\* every other id are untouched either way.
C23_GetNeverReturnsExpired ==
    [][\A id \in SessionIds :
        (last'.op = "get_session" /\ last'.target = id)
        => LET r == get_session(sessions, id, now)
           IN  /\ \A other \in SessionIds \ {id} : sessions'[other] = sessions[other]
               /\ r.err = last'.err
               /\ r.err = "Some" => ~is_expired(r.session, now)
               /\ IF sessions[id] = NoSession
                  THEN last'.err = "None" /\ sessions' = sessions
                  ELSE IF is_expired(sessions[id], now)
                  THEN last'.err = "None" /\ sessions'[id] = NoSession
                  ELSE /\ last'.err = "Some" /\ r.session = sessions[id]
                       /\ sessions' = sessions]_vars

\* C23's case: after an expiry, get_session answered None for an id that is
\* no longer stored, while a younger session is still in the map.
C23_Witness ==
    /\ last.op = "get_session" /\ last.err = "None"
    /\ sessions[last.target] = NoSession
    /\ now > TimeAt(FirstDay, SESSION_MAX_AGE)
    /\ \E id \in StoredIds(sessions) : ~is_expired(sessions[id], now)


(***************************************************************************)
(* Claims on deactivation, the blacklist and registration.                 *)
(***************************************************************************)
\* C24: deactivation is terminal.  Once an agent's active flag is false it is
\* false in every later state, whatever instruction is sent, and a second
\* deactivate_agent is rejected (with AgentAlreadyInactive when the owner
\* signs) and leaves updated_at as it was.
C24_DeactivationIsTerminal ==
    [][\A d \in Registered :
        ~agents[d].active
        => /\ agents'[d] # NoAgent
           /\ ~agents'[d].active
           /\ (last'.op = "deactivate_agent" /\ last'.target = d.id)
              => /\ last'.err # "Ok"
                 /\ last'.signer = agents[d].owner
                       => last'.err = "AgentAlreadyInactive"
                 /\ agents'[d].updated_at = agents[d].updated_at]_vars

\* C24's case: the owner's second deactivate_agent, sent later than the
\* first, was refused and updated_at still shows an earlier time.
C24_Witness ==
    /\ last.op = "deactivate_agent" /\ last.err = "AgentAlreadyInactive"
    /\ \E d \in Registered :
        /\ last.target = d.id
        /\ ~agents[d].active
        /\ agents[d].updated_at < now


\* C25: add_to_blacklist and remove_from_blacklist are each idempotent,
\* remove_from_blacklist followed by add_to_blacklist leaves blacklisted =
\* true, both are accepted only when the hook authority signs, and neither
\* changes the target's registration_count, last_registration or last_day.
C25_BlacklistOps ==
    [][\A u \in Owners :
        LET ops == {"add_to_blacklist", "remove_from_blacklist"}
            same(s, t) == /\ s.registration_count = t.registration_count
                          /\ s.last_registration = t.last_registration
                          /\ s.last_day = t.last_day
            added == add_to_blacklist(users[u]).account
            removed == remove_from_blacklist(users[u]).account
        IN  /\ users[u] # NoUser
               => /\ add_to_blacklist(added).account = added
                  /\ remove_from_blacklist(removed).account = removed
                  /\ add_to_blacklist(removed).account.blacklisted = TRUE
                  /\ added.blacklisted = TRUE /\ removed.blacklisted = FALSE
                  /\ same(added, users[u]) /\ same(removed, users[u])
            /\ (last'.op \in ops /\ last'.target = u)
               => /\ last'.err = "Ok"
                     <=> (users[u] # NoUser /\ last'.signer = hook_state.authority)
                  /\ IF last'.err = "Ok"
                     THEN /\ users'[u].blacklisted = (last'.op = "add_to_blacklist")
                          /\ same(users'[u], users[u])
                     ELSE users' = users]_vars

\* C25's case: the authority blacklisted a user with registrations on record.
C25_Witness ==
    /\ last.op = "add_to_blacklist" /\ last.err = "Ok"
    /\ last.signer = hook_state.authority
    /\ users[last.target].blacklisted
    /\ users[last.target].registration_count > 0
    /\ users[last.target].last_registration > 0


\* C26: register_agent is rejected with NoKeysProvided when public_keys is
\* empty, with TooManyKeys when it has more than 5 entries, with
\* KeyArrayMismatch when its length differs from that of key_types or of
\* signatures, with UnsupportedKeyType when a key_type is not Ed25519, with
\* InvalidSignature when a signatures[i] does not verify under public_keys[i]
\* over owner || did; with 1 to 5 keys that pass all of these it is accepted
\* and stores the keys in order, none revoked, with key_count = |public_keys|.
C26_RegisterAgentKeyChecks ==
    [][\A d \in DIDs :
        /\ \A owner \in Owners : \A in \in RegInputs(RegKeyLists, owner, d) :
            LET pk == in[1]
                kt == in[2]
                sg == in[3]
                n == Len(pk)
                r == register_agent(ZeroAgent, registry, owner, d, Name0, Desc0,
                                    Endpoint0, Caps0, pk, kt, sg, now)
                badType == {i \in 1 .. n : kt[i] # 0}
                badSig == {i \in 1 .. n :
                             verify_ed25519_signature(pk[i],
                                 RegistrationMessage(owner, d), sg[i]) # "Ok"}
            IN  IF n = 0 THEN r.err = "NoKeysProvided"
                ELSE IF n > 5 THEN r.err = "TooManyKeys"
                ELSE IF n # Len(kt) THEN r.err = "KeyArrayMismatch"
                ELSE IF n # Len(sg) THEN r.err = "KeyArrayMismatch"
                ELSE IF badType # {} /\ badSig = {}
                    THEN r.err = "UnsupportedKeyType"
                ELSE IF badType = {} /\ badSig # {}
                    THEN r.err = "InvalidSignature"
                ELSE IF badType # {}
                    THEN r.err \in {"UnsupportedKeyType", "InvalidSignature"}
                ELSE /\ r.err = "Ok"
                     /\ r.account.key_count = n
                     /\ \A i \in 1 .. n :
                            /\ r.account.public_keys[i - 1] = pk[i]
                            /\ r.account.key_types[i - 1] = kt[i]
                            /\ r.account.key_revoked[i - 1] = FALSE
        /\ (last'.op = "register_agent" /\ last'.target = d.id /\ last'.err = "Ok")
           => /\ agents'[d].key_count \in 1 .. 5
              /\ \A i \in 0 .. agents'[d].key_count - 1 :
                    agents'[d].key_revoked[i] = FALSE]_vars

\* C26's case: a registration with five keys was accepted and the keys are
\* stored in the order given.
C26_Witness ==
    /\ last.op = "register_agent" /\ last.err = "Ok"
    /\ \E d \in Registered :
        /\ last.target = d.id
        /\ agents[d].key_count = 5
        /\ agents[d].public_keys[0] = "K1" /\ agents[d].public_keys[1] = "K2"
        /\ \A i \in 0 .. 4 : agents[d].key_revoked[i] = FALSE


(***************************************************************************)
(* Claims on Did.                                                          *)
(***************************************************************************)
\* C27 (as claimed): for every network and address from which
\* Did::from_parts builds a Did, Did::new on that Did's string succeeds and
\* returns the same network and address; and Did::new fails on every string
\* that is not made of exactly four ':'-separated segments of which the first
\* is "did" and the second "sage".
C27_DidRoundTrip ==
    /\ parsed.op = "Did::new(from_parts)"
       => /\ parsed.out.err = "Ok"
          /\ parsed.out.did.network = parsed.input[1]
          /\ parsed.out.did.address = parsed.input[2]
    /\ (/\ parsed.op = "Did::new"
        /\ ~(/\ Len(parsed.input) = 4
             /\ parsed.input[1] = <<"did">>
             /\ parsed.input[2] = <<"sage">>))
       => parsed.out.err = "Validation"


(***************************************************************************)
(* Claims on the hook's record of registrations.                           *)
(***************************************************************************)
\* C28: after_registration counts committed registrations only: an
\* after_registration by a user that does not directly follow an agent
\* registration committed by that user (a second one for the same
\* registration, or one without any registration) leaves the user's
\* registration_count and last_registration as they were.
C28_AfterRegistrationIdempotent ==
    [][(/\ last'.op = "after_registration"
        /\ users[last'.target] # NoUser
        /\ ~(/\ last.op = "register_agent" /\ last.err = "Ok"
             /\ last.signer = last'.signer))
        => /\ users'[last'.target].registration_count
                = users[last'.target].registration_count
           /\ users'[last'.target].last_registration
                = users[last'.target].last_registration]_vars


\* C29 (as claimed): whenever verify_registration reaches the daily-quota
\* check with last_day other than the current day (now / 86400), the user
\* state after the call has registration_count = 0 and last_day = now / 86400,
\* also when a later check (DID shape, signature) rejects the call.
C29_ResetIsUnconditional ==
    [][(/\ last'.op = "verify_registration"
        /\ last'.err \in {"DailyLimitReached", "InvalidDIDFormat",
                          "InvalidSignature", "Ok"}
        /\ users[last'.target].last_day # now \div 86400)
        => /\ users'[last'.target].registration_count = 0
           /\ users'[last'.target].last_day = now \div 86400]_vars

\* C29 (amended): a verify_registration that reaches the daily-quota check
\* with last_day other than the current day leaves registration_count = 0 and
\* last_day = now / 86400, the other fields as they were, when it is accepted;
\* when a later check rejects it, the user state is as it was before the call.
C29_ResetCommittedWhenAccepted ==
    [][(/\ last'.op = "verify_registration"
        /\ last'.err \in {"DailyLimitReached", "InvalidDIDFormat",
                          "InvalidSignature", "Ok"}
        /\ users[last'.target].last_day # now \div 86400)
        => IF last'.err = "Ok"
           THEN users'[last'.target]
                  = [users[last'.target] EXCEPT !.registration_count = 0,
                                                !.last_day = now \div 86400]
           ELSE /\ last'.err # "DailyLimitReached"
                /\ users'[last'.target] = users[last'.target]]_vars

\* A call on the day after a recorded registration was rejected for its
\* signature, and the counter and the day of that registration are still there.
C29_Witness ==
    /\ last.op = "verify_registration"
    /\ last.err = "InvalidSignature"
    /\ users["alice"] # NoUser
    /\ users["alice"].registration_count > 0
    /\ users["alice"].last_day = FirstDay
    /\ now \div 86400 = FirstDay + 1


(***************************************************************************)
(* Claims on key rotation.                                                 *)
(***************************************************************************)
\* C30: an accepted rotate_key(i, new_pk, new_kt, sig) changes only
\* public_keys[i], key_types[i], nonce (+1) and updated_at: key_count, every
\* revoked flag, every other key slot, active, owner, did and metadata are
\* unchanged, so the number of non-revoked keys stays the same; rotate_key on
\* an index >= key_count or on a revoked slot is rejected.
C30_RotateKeyFrame ==
    /\ [](\A d \in Registered :
          \A i \in 0 .. MAX_KEYS_PER_AGENT :
          \A in \in KeyOpInputs(agents[d], agents[d].owner) :
            LET r == Checked(UpdateAgentAccounts(agents[d], agents[d].owner),
                             rotate_key(agents[d], agents[d].owner, i,
                                        in[1], in[2], in[3], now))
            IN  /\ i >= agents[d].key_count => r.err = "InvalidKeyIndex"
                /\ (i < agents[d].key_count /\ agents[d].key_revoked[i])
                      => r.err = "KeyAlreadyRevoked"
                /\ r.err = "Ok" =>
                      /\ r.account
                           = [agents[d] EXCEPT !.public_keys[i] = in[1],
                                               !.key_types[i] = in[2],
                                               !.nonce = @ + 1,
                                               !.updated_at = now]
                      /\ NonRevoked(r.account) = NonRevoked(agents[d]))
    /\ [][\A d \in Registered :
          (last'.op = "rotate_key" /\ last'.target = d.id /\ last'.err = "Ok") =>
            \E i \in NonRevoked(agents[d]) :
                agents'[d] = [agents[d] EXCEPT
                                 !.public_keys[i] = agents'[d].public_keys[i],
                                 !.key_types[i] = agents'[d].key_types[i],
                                 !.nonce = @ + 1,
                                 !.updated_at = now]]_vars

\* C30's case: a key was rotated on an agent that holds a revoked key next to
\* it.
C30_Witness ==
    /\ last.op = "rotate_key" /\ last.err = "Ok"
    /\ \E d \in Registered :
        /\ last.target = d.id
        /\ agents[d].nonce >= 2
        /\ \E i \in 0 .. (agents[d].key_count - 1) : agents[d].key_revoked[i]


(***************************************************************************)
(* update_agent on one agent, with every field left out, given at its      *)
(* bound, or given one byte over it.                                       *)
(***************************************************************************)
Desc1 == Str("changed", 7)
Endpoint1 == Str("https://b", 9)
EndpointLong == Str("endpoint-too-long", MAX_ENDPOINT_LEN + 1)
Caps1 == Str("[chat]", 6)
CapsLong == Str("caps-too-long", MAX_CAPABILITIES_LEN + 1)

UpdateInputs ==
    {None, Name1, NameLong} \X {None, Desc1, DescLong}
        \X {None, Endpoint1, EndpointLong} \X {None, Caps1, CapsLong}

UpdateNext ==
    \/ RegisterAgent({DID1}, {"alice"}, RegistryKeyLists)
    \/ UpdateAgent({DID1}, Owners, UpdateInputs, MaxNonce)
    \/ Tick(RegistryTimes)

UpdateSpec == AgentInit /\ [][UpdateNext]_vars

(***************************************************************************)
(* Claims on the agent's metadata.                                         *)
(***************************************************************************)
\* C31: an accepted update_agent changes only the metadata fields passed as
\* Some(..) and updated_at: fields passed as None, all keys, key_count,
\* revoked flags, nonce, active, owner, did and registered_at are unchanged;
\* every stored metadata field stays within its bound (name <= 64,
\* description <= 256, endpoint <= 128, capabilities <= 256 bytes).
C31_UpdateAgentFrame ==
    /\ [](\A d \in Registered :
            /\ agents[d].name.len <= 64
            /\ agents[d].description.len <= 256
            /\ agents[d].endpoint.len <= 128
            /\ agents[d].capabilities.len <= 256
            /\ \A in \in UpdateInputs :
                LET r == Checked(UpdateAgentAccounts(agents[d], agents[d].owner),
                                 update_agent(agents[d], in[1], in[2], in[3],
                                              in[4], now))
                    given(value, old) == IF value = None THEN old ELSE value
                IN  r.err = "Ok" =>
                      r.account
                        = [agents[d] EXCEPT
                             !.name = given(in[1], @),
                             !.description = given(in[2], @),
                             !.endpoint = given(in[3], @),
                             !.capabilities = given(in[4], @),
                             !.updated_at = now])
    /\ [][\A d \in Registered :
          (last'.op = "update_agent" /\ last'.target = d.id /\ last'.err = "Ok") =>
            agents'[d] = [agents[d] EXCEPT
                             !.name = agents'[d].name,
                             !.description = agents'[d].description,
                             !.endpoint = agents'[d].endpoint,
                             !.capabilities = agents'[d].capabilities,
                             !.updated_at = now]]_vars

\* C31's case: an update changed the endpoint and the capabilities at a later
\* time and left the name and the description of the registration.
C31_Witness ==
    /\ last.op = "update_agent" /\ last.err = "Ok"
    /\ agents[DID1] # NoAgent
    /\ agents[DID1].name = Name0 /\ agents[DID1].description = Desc0
    /\ agents[DID1].endpoint = Endpoint1 /\ agents[DID1].capabilities = Caps1
    /\ agents[DID1].updated_at > agents[DID1].registered_at


(***************************************************************************)
(* Claims on the order of the hook's checks.                               *)
(***************************************************************************)
\* C32: verify_registration reports the first failing check in the fixed
\* order hook disabled, blacklisted, cooldown, daily quota, DID shape,
\* signature: a blacklisted user inside the cooldown gets Blacklisted, a user
\* inside the cooldown who is also at 5 registrations gets CooldownActive, and
\* a blacklisted user is rejected with Blacklisted on every call whatever the
\* other inputs.
C32_VerifyRegistrationOrder ==
    /\ [](\A u \in {"alice"} : users[u] # NoUser =>
          \A enabled \in BOOLEAN : \A in \in VerifyInputs(u) :
            LET hook == [hook_state EXCEPT !.enabled = enabled]
                r == Checked(VerifyRegistrationAccounts(users[u], hook),
                             verify_registration(users[u], u, in[1], in[2],
                                                 in[3], now))
                today == IF users[u].last_day = now \div 86400
                         THEN users[u].registration_count ELSE 0
                first == IF ~enabled THEN "HookDisabled"
                         ELSE IF users[u].blacklisted THEN "Blacklisted"
                         ELSE IF /\ users[u].last_registration > 0
                                 /\ now < users[u].last_registration + 60
                             THEN "CooldownActive"
                         ELSE IF today >= 5 THEN "DailyLimitReached"
                         ELSE IF in[1].head # "did:" \/ in[1].len < 10
                             THEN "InvalidDIDFormat"
                         ELSE IF in[2].len # 64 \/ in[2].by # u \/ in[2].msg # in[3]
                             THEN "InvalidSignature"
                         ELSE "Ok"
            IN  r.err = first)
    /\ [][(last'.op = "verify_registration" /\ users[last'.target] # NoUser) =>
            LET user_state == users[last'.target]
            IN  IF user_state.blacklisted THEN last'.err = "Blacklisted"
                ELSE IF /\ user_state.last_registration > 0
                        /\ now < user_state.last_registration + 60
                    THEN last'.err = "CooldownActive"
                ELSE IF /\ user_state.last_day = now \div 86400
                        /\ user_state.registration_count >= 5
                    THEN last'.err = "DailyLimitReached"
                ELSE last'.err \in {"InvalidDIDFormat", "InvalidSignature", "Ok"}]_vars

\* C32's case: a user inside the cooldown and at 5 registrations of the day
\* was answered CooldownActive.
C32_Witness ==
    /\ last.op = "verify_registration" /\ last.err = "CooldownActive"
    /\ users["alice"] # NoUser
    /\ ~users["alice"].blacklisted
    /\ users["alice"].registration_count = 5
    /\ users["alice"].last_day = now \div 86400
    /\ now < users["alice"].last_registration + 60


(***************************************************************************)
(* Claims on key-ownership proofs.                                         *)
(***************************************************************************)
\* C33 (as claimed): a (public_key, signature) pair accepted by add_key or
\* rotate_key on agent A at nonce n is rejected with InvalidSignature by both
\* add_key and rotate_key on A in every later state.  Here: in the state the
\* acceptance leaves, the accepted pair is answered InvalidSignature by
\* add_key, and by rotate_key on any slot in use.
C33_ReplayIsInvalidSignature ==
    [][\A d \in Registered : \A k \in PubKeys :
        LET owner == agents[d].owner
            signature == Sign(k, KeyOpMessage(owner, agents[d].nonce))
            accepted ==
                /\ last'.op \in {"add_key", "rotate_key"}
                /\ last'.target = d.id /\ last'.err = "Ok"
                /\ IF last'.op = "add_key"
                   THEN agents'[d] = add_key(agents[d], owner, k, 0, signature,
                                             now).account
                   ELSE \E i \in NonRevoked(agents[d]) :
                           agents'[d] = rotate_key(agents[d], owner, i, k, 0,
                                                   signature, now).account
        IN  accepted =>
              /\ Checked(UpdateAgentAccounts(agents'[d], owner),
                         add_key(agents'[d], owner, k, 0, signature, now')).err
                   = "InvalidSignature"
              /\ \A i \in NonRevoked(agents'[d]) :
                   Checked(UpdateAgentAccounts(agents'[d], owner),
                           rotate_key(agents'[d], owner, i, k, 0, signature,
                                      now')).err = "InvalidSignature"]_vars

\* C33 (amended): a pair accepted by add_key or rotate_key on A at nonce n is
\* signed over owner || n, and the acceptance moves the nonce to n + 1; the
\* nonce never decreases; and in every state each pair signed for a nonce below
\* the current one is accepted by neither add_key nor rotate_key on A: the
\* call is rejected with InvalidSignature when it reaches the signature check,
\* and before that with TooManyKeys (add_key on 5 keys), InvalidKeyIndex or
\* KeyAlreadyRevoked (rotate_key on a slot out of use).
C33_ProofIsFreshPerNonce ==
    /\ [](\A d \in Registered :
          LET owner == agents[d].owner
              add(in) == Checked(UpdateAgentAccounts(agents[d], owner),
                                 add_key(agents[d], owner, in[1], in[2], in[3],
                                         now))
              rotate(i, in) == Checked(UpdateAgentAccounts(agents[d], owner),
                                       rotate_key(agents[d], owner, i, in[1],
                                                  in[2], in[3], now))
          IN  /\ \A in \in KeyOpInputs(agents[d], owner) :
                  \A i \in 0 .. MAX_KEYS_PER_AGENT :
                    (add(in).err = "Ok" \/ rotate(i, in).err = "Ok")
                        => in[3] = Sign(in[1], KeyOpMessage(owner, agents[d].nonce))
              /\ \A n \in 0 .. (agents[d].nonce - 1), k \in PubKeys :
                  LET replayed == <<k, 0, Sign(k, KeyOpMessage(owner, n))>>
                  IN  /\ add(replayed).err
                            = IF agents[d].key_count < 5 THEN "InvalidSignature"
                              ELSE "TooManyKeys"
                      /\ \A i \in 0 .. MAX_KEYS_PER_AGENT :
                            rotate(i, replayed).err
                              = IF i >= agents[d].key_count THEN "InvalidKeyIndex"
                                ELSE IF agents[d].key_revoked[i]
                                    THEN "KeyAlreadyRevoked"
                                ELSE "InvalidSignature")
    /\ [][\A d \in Registered :
          /\ agents'[d].nonce >= agents[d].nonce
          /\ (/\ last'.op \in {"add_key", "rotate_key"}
              /\ last'.target = d.id /\ last'.err = "Ok")
                => agents'[d].nonce = agents[d].nonce + 1]_vars

\* C33's case: after two accepted key operations, a pair signed for the nonce
\* before was offered again and refused as InvalidSignature.
C33_Witness ==
    /\ last.op \in {"add_key", "rotate_key"} /\ last.err = "InvalidSignature"
    /\ \E d \in Registered :
        /\ last.target = d.id /\ last.signer = agents[d].owner
        /\ agents[d].nonce = 2
        /\ agents[d].key_count < 5


(***************************************************************************)
(* Claims on the sequence counters of a pair of contexts.                  *)
(***************************************************************************)
\* C34: for a paired sender and receiver HpkeContext (same derived key, both
\* starting at sequence 0) with no loss and no reordering, the two sequence
\* counters are equal after every delivered message, for one-directional and
\* for request/response traffic: each seal on one side and the matching open
\* on the other advance their counter by exactly one, so the counters differ
\* by the ciphertexts still on their way and are equal when none is.
C34_SequencesInLockstep ==
    /\ [](pair.sender.key = pair.receiver.key =>
            /\ pair.sender.sequence - Len(pair.wire)
                 = pair.receiver.sequence - Len(pair.back)
            /\ (pair.wire = <<>> /\ pair.back = <<>>)
                 => pair.sender.sequence = pair.receiver.sequence)
    /\ [][pair.sender.key = pair.receiver.key =>
            /\ last'.signer = "sender"
                 => /\ pair'.sender.sequence = pair.sender.sequence + 1
                    /\ pair'.receiver = pair.receiver
            /\ last'.signer = "receiver"
                 => /\ pair'.receiver.sequence = pair.receiver.sequence + 1
                    /\ pair'.sender = pair.sender]_vars

\* C34's case: two requests were each answered, every ciphertext has been
\* opened, and both counters stand at 4.
C34_Witness ==
    /\ pair.sender.key = pair.receiver.key
    /\ last.op = "open" /\ last.signer = "sender" /\ last.err = "Ok"
    /\ pair.wire = <<>> /\ pair.back = <<>>
    /\ Len(pair.got) = 2
    /\ pair.sender.sequence = 4 /\ pair.receiver.sequence = 4


(***************************************************************************)
(* Claims on the atomicity of the registry's instructions.                 *)
(***************************************************************************)
\* C35: every rejected registry instruction leaves the Agent and Registry
\* accounts exactly as before the instruction: update_agent with a valid name
\* and an over-long description does not change name, a rejected
\* register_agent creates no agent and does not increment agent_count; and
\* agent_count always equals the number of accepted register_agent
\* instructions (it starts at 0, an accepted register_agent adds one, and
\* nothing else changes it).
C35_RejectedLeavesNoTrace ==
    /\ [](registry.agent_count = Cardinality(Registered))
    /\ [][/\ (/\ last'.op \in {"register_agent", "add_key", "revoke_key",
                               "rotate_key", "update_agent", "deactivate_agent",
                               "set_verification_hook"}
              /\ last'.err # "Ok")
                => (agents' = agents /\ registry' = registry)
          /\ registry'.agent_count
                = registry.agent_count
                    + (IF last'.op = "register_agent" /\ last'.err = "Ok"
                       THEN 1 ELSE 0)]_vars

\* C35's case: an update_agent with a valid new name and an over-long
\* description was rejected and the agent still has the name it was
\* registered with, while the other address was refused a registration.
C35_Witness ==
    /\ last.op = "update_agent" /\ last.err = "DescriptionTooLong"
    /\ last.target = DID1.id
    /\ agents[DID1] # NoAgent /\ agents[DID1].name = Name0
    /\ agents[DID2] = NoAgent
    /\ registry.agent_count = 1


(***************************************************************************)
(* Claims on the nonces of one context.                                    *)
(***************************************************************************)
\* C36: within one HpkeContext the sequence starts at 0 and never decreases;
\* a successful seal emits as nonce the sequence value held before the call
\* (big-endian in the low 8 of 12 bytes) and advances the sequence by exactly
\* one, so under any interleaving of seal and open calls on that context no
\* two seals emit the same nonce; open on an input shorter than 12 bytes fails
\* without changing the sequence.
C36_OneNoncePerSeal ==
    /\ pair.sender.sequence = 0
    /\ [](\A i, j \in 1 .. Len(pair.wire) :
            i < j => /\ pair.wire[i].nonce # pair.wire[j].nonce
                     /\ EmbeddedSequence(pair.wire[i]) < EmbeddedSequence(pair.wire[j]))
    /\ [](LET r == open(pair.sender, Wire(<<>>, None, 11))
          IN  r.err # "Ok" /\ r.ctx = pair.sender)
    /\ [][/\ pair'.sender.sequence >= pair.sender.sequence
          /\ (last'.op = "seal" /\ last'.err = "Ok") =>
                LET out == pair'.wire[Len(pair'.wire)]
                IN  /\ Len(pair'.wire) = Len(pair.wire) + 1
                    /\ Len(out.nonce) = 12
                    /\ SubSeq(out.nonce, 1, 4) = <<0, 0, 0, 0>>
                    /\ from_be_bytes(SubSeq(out.nonce, 5, 12)) = pair.sender.sequence
                    /\ pair'.sender.sequence = pair.sender.sequence + 1
          /\ (last'.op = "open" /\ last'.err = "Decryption: Ciphertext too short")
                => pair'.sender = pair.sender]_vars

\* C36's case: the context sealed, opened twice, sealed again and was then
\* handed 11 bytes: the two nonces are 0 and 3.
C36_Witness ==
    /\ last.op = "open" /\ last.err = "Decryption: Ciphertext too short"
    /\ Len(pair.wire) = 2
    /\ EmbeddedSequence(pair.wire[1]) = 0
    /\ EmbeddedSequence(pair.wire[2]) = 3
    /\ pair.sender.sequence = 4


(***************************************************************************)
(* Claims on the manager's removals.                                       *)
(***************************************************************************)
\* C37: cleanup_expired removes exactly the sessions that are expired at call
\* time, returns their number, and leaves every live session in the map;
\* remove_session is idempotent (removing an absent id changes nothing) and
\* clear leaves the map empty so that count() returns 0.
C37_ManagerRemovals ==
    /\ [](LET swept == cleanup_expired(sessions, now)
          IN  /\ StoredIds(swept) = LiveIds(sessions, now)
              /\ \A id \in StoredIds(swept) : swept[id] = sessions[id]
              /\ cleanup_expired_count(sessions, now)
                    = Cardinality(StoredIds(sessions) \ StoredIds(swept))
              /\ \A id \in SessionIds :
                    LET removed == remove_session(sessions, id)
                    IN  /\ remove_session(removed, id) = removed
                        /\ id \notin StoredIds(sessions) => removed = sessions
                        /\ \A other \in SessionIds \ {id} :
                              removed[other] = sessions[other]
              /\ StoredIds(clear(sessions)) = {}
              /\ count(clear(sessions), now).err = 0)
    /\ [][/\ last'.op = "cleanup_expired" =>
                \A id \in SessionIds :
                    sessions'[id] = IF id \in LiveIds(sessions, now)
                                    THEN sessions[id] ELSE NoSession
          /\ (last'.op = "remove_session" /\ last'.target \notin StoredIds(sessions))
                => sessions' = sessions
          /\ last'.op = "clear" =>
                /\ StoredIds(sessions') = {}
                /\ count(sessions', now).err = 0]_vars

\* C37's case: a sweep made when the sessions of the start have expired has
\* left one session, live, that was added later.
C37_Witness ==
    /\ last.op = "cleanup_expired"
    /\ now = TimeAt(FirstDay, SESSION_MAX_AGE + 1)
    /\ SessionsLen(sessions) = 1
    /\ \E id \in StoredIds(sessions) :
          /\ sessions[id].created_at = TimeAt(FirstDay, SESSION_MAX_AGE)
          /\ ~is_expired(sessions[id], now)


(***************************************************************************)
(* Claims on the nonces of a session.                                      *)
(***************************************************************************)
\* C38: no AEAD nonce is used twice under one session key: for the
\* initiator's context and the responder's paired context (same derived key,
\* each starting at sequence 0 and numbering its seals from its own counter),
\* no two seal operations by either party emit the same nonce, in any run of
\* handshake followed by send_message request/response exchanges.
C38_NoNonceTwice ==
    LET sealed == pair.wire \o pair.back
    IN  \A i, j \in 1 .. Len(sealed) :
            (i < j /\ sealed[i].body.key = sealed[j].body.key)
                => sealed[i].nonce # sealed[j].nonce


(***************************************************************************)
(* Claims on revocation.                                                   *)
(***************************************************************************)
\* C39: revocation is effective and permanent: after an accepted
\* revoke_key(i) on agent A, the public key that was stored at index i is not
\* held by any non-revoked slot of A (also when register_agent, add_key or
\* rotate_key were given a key equal to one already stored), the flag
\* key_revoked[i] stays true in every later state, and key_count never
\* decreases.  (A revoked slot keeps its key: rotate_key refuses it.)
C39_RevocationIsEffective ==
    /\ [](\A d \in Registered :
          \A i \in 0 .. (agents[d].key_count - 1) :
            agents[d].key_revoked[i] =>
                \A j \in NonRevoked(agents[d]) :
                    agents[d].public_keys[j] # agents[d].public_keys[i])
    /\ [][\A d \in Registered :
          /\ agents'[d].key_count >= agents[d].key_count
          /\ \A i \in 0 .. (agents[d].key_count - 1) :
                agents[d].key_revoked[i] =>
                    /\ agents'[d].key_revoked[i]
                    /\ agents'[d].public_keys[i] = agents[d].public_keys[i]]_vars


\* C40: a key-ownership proof is bound to one agent: a (public_key,
\* signature) pair accepted by add_key or rotate_key on agent A is not
\* accepted by add_key or rotate_key on a different agent B, including when A
\* and B have the same owner and the same current nonce.  Here: in the state
\* the acceptance on A leaves, B's owner offers the accepted pair to add_key
\* and to rotate_key on every index of B.
C40_ProofBoundToAgent ==
    [][\A a \in Registered, b \in Registered, k \in PubKeys :
        LET owner == agents[a].owner
            signature == Sign(k, KeyOpMessage(owner, agents[a].nonce))
            accepted ==
                /\ a # b
                /\ last'.op \in {"add_key", "rotate_key"}
                /\ last'.target = a.id /\ last'.err = "Ok"
                /\ IF last'.op = "add_key"
                   THEN agents'[a] = add_key(agents[a], owner, k, 0, signature,
                                             now).account
                   ELSE \E i \in NonRevoked(agents[a]) :
                           agents'[a] = rotate_key(agents[a], owner, i, k, 0,
                                                   signature, now).account
        IN  accepted =>
              /\ Checked(UpdateAgentAccounts(agents'[b], agents'[b].owner),
                         add_key(agents'[b], agents'[b].owner, k, 0, signature,
                                 now')).err # "Ok"
              /\ \A j \in 0 .. MAX_KEYS_PER_AGENT :
                   Checked(UpdateAgentAccounts(agents'[b], agents'[b].owner),
                           rotate_key(agents'[b], agents'[b].owner, j, k, 0,
                                      signature, now')).err # "Ok"]_vars

====
